---- MODULE Spec2Model ----
(***************************************************************************)
(* A model of the sonr reactor library: the slot vector (PreVec), the      *)
(* token namespace of the System, the EventedReactor handle, the reactor   *)
(* combinators, the System::start event loop, and the cross-thread         *)
(* primitives: signal channel, work-stealing queue and broadcaster.        *)
(***************************************************************************)
EXTENDS Integers, Sequences, FiniteSets, TLC

VARIABLES
    reactors,   \* System.reactors: the PreVec<()> of reserved tokens
    handles,    \* tokens of the live EventedReactor values, in creation order
    held,       \* tokens returned by reserve_token and not freed since (history)
    hist,       \* the token and handle calls made so far, oldest first (history)
    root,       \* the reactor graph given to System::start, with its state
    chan,       \* the values queued in each signal channel, by receiver token
    ready,      \* tokens whose readiness notification is queued in the selector
    log,        \* calls and returns of every reactor during the last react call (history)
    lastIn,     \* input of the last react call on the root
    lastOut,    \* what that call returned
    pc,         \* where System::start stands: "poll", "loop", "drain", "returned"
    events,     \* the batch of events the last poll returned
    idx,        \* position in `events` of the event the for loop is at
    calls,      \* the react calls start made on the root since the last poll (history)
    stopper,    \* another thread sending Stop: "idle", "set" (readiness set), "done"
    feeder,     \* another thread sending values to the signal receiver
    capacity,   \* Capacity of the signal channels of the primitive under study
    sig,        \* the signal channels: values queued, readiness, receiver dropped
    thr,        \* the sending threads (senders, producer, publishers), each with its position
    con,        \* the receiving side: a receiver, or the engines of the consumers
    dq,         \* the work-stealing deque of a Queue, oldest value first
    lock,       \* the RwLock of a Broadcast: threads holding it for reading, for writing
    ops,        \* the completed channel operations, oldest first (history)
    stream,     \* the EventedReactor inside a Stream: token, interest and the two latches
    sock,       \* the socket under the stream, as the operating system holds it
    sel,        \* the selector's entry for the stream: registered, queued for the next poll
    io,         \* the driver of the stream: its position, its last calls and their results (history)
    upper       \* a second PreVec, made to share one index space with `reactors`

tokenVars == <<reactors, handles, held, hist, upper>>
loopVars == <<pc, events, idx, calls, stopper, feeder>>
graphVars == <<root, chan, ready, log, lastIn, lastOut, loopVars>>
syncVars == <<capacity, sig, thr, con, dq, lock, ops>>
netVars == <<stream, sock, sel, io>>
vars == <<reactors, handles, held, hist, root, chan, ready, log, lastIn, lastOut,
          pc, events, idx, calls, stopper, feeder, capacity, sig, thr, con, dq, lock, ops,
          stream, sock, sel, io, upper>>

\* ------------------------------------------------------------------------
\* Bounds of the model
\* ------------------------------------------------------------------------
\* Capacity System::new gives the token vector. The source uses 100_000
\* (src/src/system.rs:79); the model scales it down so that growth happens.
SystemCapacity == 2
\* Number of token / handle calls in one run.
MaxOps == 6
\* Longest content of a generator or of a signal channel at the start; the
\* values are 1..MaxGen.
MaxGen == 3
\* Number of values the feeding thread sends to the signal receiver, and of
\* values each sender or publisher sends.
MaxSends == 2
\* Number of SignalSender clones sending to one receiver, and of publishers.
MaxSenders == 2
\* Largest capacity given to a bounded channel.
MaxCap == 2
\* Number of subscribers of a Broadcast.
MaxSubs == 2
\* Number of values the producer pushes into the queue: 1..MaxPush.
MaxPush == 4
\* Largest offset given to a PreVec.
MaxOffset == 1
\* Number of connections clients make to the listeners.
MaxConns == 3
\* Bytes a socket buffers in each direction.
MaxBytes == 2
\* Width in bits of usize in the model of PreVec: usize::MAX is 2^UsizeBits - 1.
UsizeBits == 4

\* ------------------------------------------------------------------------
\* PreVec (src/src/prevec.rs)
\* ------------------------------------------------------------------------
\* Entry::Empty(next) and Entry::Occupied(v)
Empty(n) == [occ |-> FALSE, nxt |-> n, val |-> 0]
Occupied(v) == [occ |-> TRUE, nxt |-> 0, val |-> v]

\* The unit value () stored by the System
Unit == 0

\* (len..capacity).map(|i| Entry::Empty(i+1)).collect()
EmptyRange(len, cap) ==
    IF cap > len THEN [k \in 1..(cap - len) |-> Empty(len + k)] ELSE <<>>

PreVecWithCapacity(cap) ==
    [inner |-> <<>>, capacity |-> cap, next |-> 0, offset |-> 0,
     length |-> 0, can_grow |-> TRUE]

\* grow_if_required that refuses only while nothing was materialised
GrowIfRequired_GrowWhenFull(p, index) ==
    IF index >= Len(p.inner)
    THEN IF index >= p.capacity /\ ~p.can_grow /\ p.inner = <<>>
         THEN [pv |-> p, res |-> "NoCapacity"]
         ELSE IF index < p.capacity
              THEN [pv |-> [p EXCEPT !.inner = @ \o EmptyRange(Len(p.inner), p.capacity)],
                    res |-> "ok"]
              ELSE [pv |-> [p EXCEPT !.capacity = 2 * p.capacity,
                                     !.inner = @ \o EmptyRange(Len(p.inner), 2 * p.capacity)],
                    res |-> "ok"]
    ELSE [pv |-> p, res |-> "ok"]

\* grow_if_required: the vector and whether the call returned Ok
GrowIfRequired(p, index) ==
    IF index >= Len(p.inner)
    THEN IF index >= p.capacity /\ ~p.can_grow
         THEN [pv |-> p, res |-> "NoCapacity"]
         ELSE IF index < p.capacity
              THEN [pv |-> [p EXCEPT !.inner = @ \o EmptyRange(Len(p.inner), p.capacity)],
                    res |-> "ok"]
              ELSE [pv |-> [p EXCEPT !.capacity = 2 * p.capacity,
                                     !.inner = @ \o EmptyRange(Len(p.inner), 2 * p.capacity)],
                    res |-> "ok"]
    ELSE [pv |-> p, res |-> "ok"]

\* insert: res is "ok" (index is the returned index), "NoCapacity" (Err) or
\* "panic" (index out of bounds, or the slot was occupied)
PreVecInsert(p, v) ==
    LET index == p.next
        g == GrowIfRequired(p, index)
        q == g.pv
    IN  IF g.res # "ok"
        THEN [pv |-> p, res |-> g.res, index |-> 0]
        ELSE IF index >= Len(q.inner)
        THEN [pv |-> q, res |-> "panic", index |-> 0]
        ELSE IF q.inner[index + 1].occ
        THEN [pv |-> q, res |-> "panic", index |-> 0]
        ELSE [pv |-> [q EXCEPT !.inner[index + 1] = Occupied(v),
                               !.length = @ + 1,
                               !.next = q.inner[index + 1].nxt],
              res |-> "ok", index |-> index + q.offset]

\* std::usize::MAX
UsizeMax == 2 ^ UsizeBits - 1

\* The same with the slot pointer left where it was.
PreVecRemove_KeepNext(p, index) ==
    LET i == IF index >= p.offset THEN index - p.offset
             ELSE index - p.offset + UsizeMax + 1
    IN  IF i >= Len(p.inner)
        THEN [pv |-> p, res |-> "panic", val |-> 0]
        ELSE IF ~p.inner[i + 1].occ
        THEN [pv |-> p, res |-> "none", val |-> 0]
        ELSE [pv |-> [p EXCEPT !.inner[i + 1] = Empty(p.next),
                               !.length = @ - 1],
              res |-> "some", val |-> p.inner[i + 1].val]

\* remove with `index - self.offset` computed in usize, wrapping: res is
\* "some" (val is the removed value), "none" or "panic" (the slot is
\* beyond the backing vector)
PreVecRemove(p, index) ==
    LET i == IF index >= p.offset THEN index - p.offset
             ELSE index - p.offset + UsizeMax + 1
    IN  IF i >= Len(p.inner)
        THEN [pv |-> p, res |-> "panic", val |-> 0]
        ELSE IF ~p.inner[i + 1].occ
        THEN [pv |-> p, res |-> "none", val |-> 0]
        ELSE [pv |-> [p EXCEPT !.inner[i + 1] = Empty(p.next),
                               !.length = @ - 1,
                               !.next = i],
              res |-> "some", val |-> p.inner[i + 1].val]

\* insert with its last line, Ok(index + self.offset), in usize: when the
\* sum passes usize::MAX a build with overflow checks panics and a build
\* without them returns the wrapped index
InsertOutcomes(p, v) ==
    LET r == PreVecInsert(p, v)
    IN  IF r.res = "ok" /\ r.index > UsizeMax
        THEN {[r EXCEPT !.res = "panic", !.index = 0],
              [r EXCEPT !.index = r.index % (UsizeMax + 1)]}
        ELSE {r}

\* remove(index): below the offset the subtraction panics in a build with
\* overflow checks and wraps in a build without
RemoveOutcomes(p, index) ==
    IF index < p.offset
    THEN {[pv |-> p, res |-> "panic", val |-> 0], PreVecRemove(p, index)}
    ELSE {PreVecRemove(p, index)}

\* set_offset
PreVecSetOffset(p, new_offset) == [p EXCEPT !.offset = new_offset]

\* in_range
PreVecInRange(p, index) ==
    index >= p.offset /\ index < p.capacity

\* get(index): what self.inner.get(index - self.offset) leads to; below the
\* offset the subtraction panics with overflow checks and wraps without
GetOutcomes(p, index) ==
    LET i == (index - p.offset) % (UsizeMax + 1)
        found == IF i < Len(p.inner) /\ p.inner[i + 1].occ
                 THEN [res |-> "some", val |-> p.inner[i + 1].val]
                 ELSE [res |-> "none", val |-> 0]
    IN  IF index < p.offset
        THEN {[res |-> "panic", val |-> 0], found}
        ELSE {found}

\* len
PreVecLen(p) == p.length

\* clear
PreVecClear(p) ==
    [p EXCEPT !.inner = EmptyRange(0, p.capacity), !.next = 0, !.length = 0]

\* get_mut(index) followed by `*slot = v` on what it found: as get, and the
\* value of an occupied slot is replaced
GetMutOutcomes(p, index, v) ==
    LET i == (index - p.offset) % (UsizeMax + 1)
        found == IF i < Len(p.inner) /\ p.inner[i + 1].occ
                 THEN [pv |-> [p EXCEPT !.inner[i + 1].val = v], res |-> "some",
                       val |-> p.inner[i + 1].val]
                 ELSE [pv |-> p, res |-> "none", val |-> 0]
    IN  IF index < p.offset
        THEN {[pv |-> p, res |-> "panic", val |-> 0], found}
        ELSE {found}

\* v[index] = x, IndexMut::index_mut: self.inner[index - self.offset]
\* panics beyond the backing vector, and an empty slot is the panic
\* "invalid index"
IndexMutOutcomes(p, index, v) ==
    LET i == (index - p.offset) % (UsizeMax + 1)
        found == IF i < Len(p.inner) /\ p.inner[i + 1].occ
                 THEN [pv |-> [p EXCEPT !.inner[i + 1].val = v], res |-> "some",
                       val |-> p.inner[i + 1].val]
                 ELSE [pv |-> p, res |-> "panic", val |-> 0]
    IN  IF index < p.offset
        THEN {[pv |-> p, res |-> "panic", val |-> 0], found}
        ELSE {found}

\* The indices at which get finds a value. The index of slot k is
\* k + offset; where that sum passes usize::MAX the two builds differ: with
\* overflow checks `index - self.offset` panics at every index below the
\* offset, so the slot has no index; without them (`wraps`) the wrapped
\* index finds it
OccupiedIndices(p, wraps) ==
    {(k - 1 + p.offset) % (UsizeMax + 1) :
        k \in {j \in 1..Len(p.inner) :
                  p.inner[j].occ /\ (wraps \/ j - 1 + p.offset <= UsizeMax)}}

\* ------------------------------------------------------------------------
\* System: the token namespace (src/src/system.rs)
\* ------------------------------------------------------------------------
\* The same without the reservation of the first token.
SystemNew_NoReserve == PreVecWithCapacity(SystemCapacity)

\* System::new: the token vector with token 0 reserved for the System
SystemNew == PreVecInsert(PreVecWithCapacity(SystemCapacity), Unit).pv

\* System::reserve_token
ReserveTokenOf(p) == PreVecInsert(p, Unit)

\* System::free_token
FreeTokenOf(p, t) == PreVecRemove(p, t)

\* Tokens reserve_token has returned so far
Issued == {hist[k].tok : k \in {j \in 1..Len(hist) : hist[j].op = "reserve" /\ hist[j].res = "ok"}}

Without(s, t) == SelectSeq(s, LAMBDA x : x # t)

Count(s, t) == Cardinality({k \in 1..Len(s) : s[k] = t})

\* The lowest index that holds no value (an index beyond the backing vector
\* is free as well). The token vector of a System has offset 0: no index
\* of it wraps, in either build
LowestFree(p) ==
    CHOOSE i \in p.offset..(p.offset + Len(p.inner)) :
        /\ i \notin OccupiedIndices(p, FALSE)
        /\ \A j \in p.offset..(i - 1) : j \in OccupiedIndices(p, FALSE)

\* The record of one call: the operation, its token, its outcome and the
\* lowest free index when it was made
Call(op, tok, res) == [op |-> op, tok |-> tok, res |-> res, lowest |-> LowestFree(reactors)]

\* The token namespace right after System::init()
TokensAtInit ==
    /\ reactors = SystemNew
    /\ upper = <<>>
    /\ handles = <<>>
    /\ held = <<>>
    /\ hist = <<>>

\* System::start was not called
NoLoop ==
    /\ pc = "idle"
    /\ events = <<>>
    /\ idx = 0
    /\ calls = <<>>
    /\ stopper = "idle"
    /\ feeder = [sent |-> 0, pc |-> "idle"]

\* No reactor graph is running
NoGraph ==
    /\ root = <<>>
    /\ chan = <<>>
    /\ ready = {}
    /\ log = <<>>
    /\ lastIn = <<>>
    /\ lastOut = <<>>
    /\ NoLoop

\* No cross-thread primitive was made
NoSync ==
    /\ capacity = <<>>
    /\ sig = <<>>
    /\ thr = <<>>
    /\ con = <<>>
    /\ dq = <<>>
    /\ lock = <<>>
    /\ ops = <<>>

\* No stream was made
NoNet ==
    /\ stream = <<>>
    /\ sock = <<>>
    /\ sel = <<>>
    /\ io = <<>>

InitTokens == TokensAtInit /\ NoGraph /\ NoSync /\ NoNet

\* A call of System::reserve_token()
ReserveToken ==
    /\ Len(hist) < MaxOps
    /\ LET r == ReserveTokenOf(reactors)
       IN  /\ reactors' = r.pv
           /\ held' = IF r.res = "ok" THEN Append(held, r.index) ELSE held
           /\ hist' = Append(hist, Call("reserve", r.index, r.res))
    /\ UNCHANGED <<upper, netVars, handles, graphVars, syncVars>>

\* A call of System::free_token(t) on a token reserve_token returned earlier
FreeToken ==
    /\ Len(hist) < MaxOps
    /\ \E t \in Issued :
         LET r == FreeTokenOf(reactors, t)
         IN  /\ reactors' = r.pv
             /\ held' = Without(held, t)
             /\ hist' = Append(hist, Call("free", t, r.res))
    /\ UNCHANGED <<upper, netVars, handles, graphVars, syncVars>>

NextTokens == ReserveToken \/ FreeToken

SpecTokens == InitTokens /\ [][NextTokens]_vars

\* ------------------------------------------------------------------------
\* EventedReactor: construction and drop (src/src/reactor/mod.rs)
\* ------------------------------------------------------------------------
\* EventedReactor::new where System::register returns Ok: the handle exists
EventedNewOk ==
    /\ Len(hist) < MaxOps
    /\ LET r == ReserveTokenOf(reactors)
       IN  /\ reactors' = r.pv
           /\ handles' = IF r.res = "ok" THEN Append(handles, r.index) ELSE handles
           /\ hist' = Append(hist, Call("new", r.index, r.res))
    /\ UNCHANGED <<upper, netVars, held, graphVars, syncVars>>

\* EventedReactor::new where System::register returns Err: `?` returns the
\* error after the token was reserved and no handle is built
EventedNewRegisterFails ==
    /\ Len(hist) < MaxOps
    /\ LET r == ReserveTokenOf(reactors)
       IN  /\ reactors' = r.pv
           /\ hist' = Append(hist, Call("new", r.index,
                                         IF r.res = "ok" THEN "register_failed" ELSE r.res))
    /\ UNCHANGED <<upper, netVars, handles, held, graphVars, syncVars>>

\* Drop for EventedReactor: System::free_token(self.token())
DropHandle ==
    /\ Len(hist) < MaxOps
    /\ \E k \in 1..Len(handles) :
         LET r == FreeTokenOf(reactors, handles[k])
         IN  /\ reactors' = r.pv
             /\ handles' = SubSeq(handles, 1, k - 1) \o SubSeq(handles, k + 1, Len(handles))
             /\ hist' = Append(hist, Call("drop", handles[k], r.res))
    /\ UNCHANGED <<upper, netVars, held, graphVars, syncVars>>

NextHandles == EventedNewOk \/ EventedNewRegisterFails \/ DropHandle

SpecHandles == InitTokens /\ [][NextHandles]_vars

\* ------------------------------------------------------------------------
\* Claims about tokens
\* ------------------------------------------------------------------------
\* C8: reserve_token never returns 0 and never returns a token that was
\* returned earlier and has not been freed since, free_token being applied
\* (also repeatedly) to tokens reserve_token returned.
C8_TokenUniqueness ==
    /\ \A k \in 1..Len(hist) : hist[k].op = "reserve" => hist[k].res = "ok" /\ hist[k].tok # 0
    /\ \A t \in Issued : Count(held, t) <= 1

\* A token was freed twice and a later reserve_token handed it out again.
C8_Witness ==
    \E i, j, k, l \in 1..Len(hist) :
        /\ i < j /\ j < k /\ k < l
        /\ hist[i].op = "reserve"
        /\ hist[j].op = "free" /\ hist[j].tok = hist[i].tok /\ hist[j].res = "some"
        /\ hist[k].op = "free" /\ hist[k].tok = hist[i].tok /\ hist[k].res = "none"
        /\ hist[l].op = "reserve" /\ hist[l].tok = hist[i].tok

\* C9 as stated: after free_token(t) the next reserve_token returns the
\* lowest index that is free at that moment.
C9_LowestFreeReused ==
    \A k \in 1..Len(hist) :
        (k > 1 /\ hist[k].op = "reserve" /\ hist[k - 1].op = "free")
            => hist[k].tok = hist[k].lowest

\* C9 as amended: after a free_token(t) that released t, the next
\* reserve_token returns t, the slot freed last, whether or not a lower
\* index is free.
C9_LastFreedReused ==
    \A k \in 1..Len(hist) :
        (k > 1 /\ hist[k].op = "reserve" /\ hist[k - 1].op = "free" /\ hist[k - 1].res = "some")
            => hist[k].res = "ok" /\ hist[k].tok = hist[k - 1].tok

\* A token was freed while a lower one was free already, and reserve_token
\* then returned the one freed last.
C9_Witness ==
    \E k \in 2..Len(hist) :
        /\ hist[k].op = "reserve" /\ hist[k - 1].op = "free" /\ hist[k - 1].res = "some"
        /\ hist[k].tok = hist[k - 1].tok
        /\ hist[k].lowest < hist[k].tok

\* C10: a token other than 0 is reserved in the slot vector if and only if
\* exactly one live EventedReactor holds it.
C10_TokenReservedIffOwned ==
    /\ \A t \in OccupiedIndices(reactors, FALSE) \ {0} : Count(handles, t) = 1
    /\ \A k \in 1..Len(handles) :
          handles[k] \in OccupiedIndices(reactors, FALSE) /\ Count(handles, handles[k]) = 1

\* ------------------------------------------------------------------------
\* Reactions and reactors (src/src/reactor)
\* ------------------------------------------------------------------------
\* Token of the System's own control channel
SYSTEM_TOKEN == 0

\* A mio Event: the token and the readiness it reports
Ev(t) == [readable |-> TRUE, token |-> t, writable |-> FALSE]
NoEvent == [readable |-> FALSE, token |-> SYSTEM_TOKEN, writable |-> FALSE]

\* enum Reaction<T> { Continue, Event(Event), Value(T) }
Continue == [val |-> 0, ev |-> NoEvent, tag |-> "Continue"]
Event(e) == [val |-> 0, ev |-> e, tag |-> "Event"]
Value(v) == [val |-> v, ev |-> NoEvent, tag |-> "Value"]

\* The reactors, each with an id that names it in the log
GenNode(id, token, inner) == [kind |-> "Gen", id |-> id, token |-> token, inner |-> inner]
MonoNode(id, token, v) == [kind |-> "Mono", id |-> id, token |-> token, inner |-> Value(v)]
ConsumerNode(id) == [kind |-> "Consumer", id |-> id]
SigNode(id, token) == [kind |-> "Sig", id |-> id, token |-> token]
MapNode(id, source, callback) == [kind |-> "Map", id |-> id, source |-> source, callback |-> callback]
ChainNode(id, from, to) == [kind |-> "Chain", id |-> id, from |-> from, to |-> to]
TcpNode(id, token) == [kind |-> "Tcp", id |-> id, token |-> token, interest |-> "r"]
UdsNode(id, token) == [kind |-> "Uds", id |-> id, token |-> token, interest |-> "r"]
OrNode(id, first, second) == [kind |-> "Or", id |-> id, first |-> first, second |-> second]
AndNode(id, first, second) == [kind |-> "And", id |-> id, first |-> first, second |-> second]

\* enum Either<T, U> { A(T), B(U) }: the variant and its payload, kept in
\* one number (the variant in the lowest bit)
EitherA(x) == 2 * x
EitherB(y) == 2 * y + 1
Side(e) == IF e % 2 = 0 THEN "A" ELSE "B"
Payload(e) == e \div 2

\* The closures given to map
Closure(f, arg) == [f |-> f, arg |-> arg]

\* What a reactor can touch outside itself: the log, the channels (the
\* accept queue of a listener is the channel of its token), the selector
\* and the reregistrations made with it; `nofile` says that the process
\* has no file descriptor left during the call
World(l, c, r) == [log |-> l, chan |-> c, ready |-> r, rereg |-> <<>>, nofile |-> FALSE]

Logged(w, id, dir, r) == [w EXCEPT !.log = Append(@, [id |-> id, dir |-> dir, r |-> r])]

\* SignalSender::send made by the thread of the engine: set_readiness, then
\* the channel send, with nothing of the event loop in between
SignalSend(w, token, v) ==
    [w EXCEPT !.ready = @ \cup {token}, !.chan[token] = Append(@, v)]

\* A closure applied to a value: the result and the world after it
Apply(cb, v, w) ==
    CASE cb.f = "id" -> [val |-> v, w |-> w]
      [] cb.f = "double" -> [val |-> v * 2, w |-> w]
      [] cb.f = "stop_if" ->
            [val |-> Unit, w |-> IF v = cb.arg THEN SignalSend(w, SYSTEM_TOKEN, "Stop") ELSE w]
      [] cb.f = "stop" -> [val |-> Unit, w |-> SignalSend(w, SYSTEM_TOKEN, "Stop")]
      [] cb.f = "either" -> [val |-> IF v = cb.arg THEN EitherA(v) ELSE EitherB(v), w |-> w]
      [] cb.f = "zero" -> [val |-> 0, w |-> w]

Result(n, out, w) == [node |-> n, out |-> out, w |-> w]

\* ReactiveGenerator::react
GenReact(n, r, w) ==
    IF r.tag = "Event" /\ r.ev.token # n.token
    THEN Result(n, Event(r.ev), w)
    ELSE IF r.tag \in {"Event", "Continue"} /\ n.inner # <<>>
    THEN Result([n EXCEPT !.inner = Tail(@)], Value(Head(n.inner)), w)
    ELSE CASE r.tag = "Continue" -> Result(n, Continue, w)
           [] r.tag = "Event" -> Result(n, Event(r.ev), w)
           [] r.tag = "Value" -> Result(n, Continue, w)

\* The value is returned and kept.
MonoReact_KeepInner(n, r, w) ==
    IF r.tag = "Event"
    THEN IF r.ev.token # n.token
         THEN Result(n, Event(r.ev), w)
         ELSE Result(n, n.inner, w)
    ELSE Result(n, Continue, w)

\* Mono::react
MonoReact(n, r, w) ==
    IF r.tag = "Event"
    THEN IF r.ev.token # n.token
         THEN Result(n, Event(r.ev), w)
         ELSE Result([n EXCEPT !.inner = Continue], n.inner, w)
    ELSE Result(n, Continue, w)

\* ReactiveConsumer::react and Consume::react
ConsumerReact(n, r, w) == Result(n, r, w)

\* ReactiveSignalReceiver::react
SigReact(n, r, w) ==
    IF r.tag = "Event" /\ r.ev.token # n.token
    THEN Result(n, Event(r.ev), w)
    ELSE IF r.tag \in {"Event", "Continue"} /\ w.chan[n.token] # <<>>
    THEN Result(n, Value(Head(w.chan[n.token])), [w EXCEPT !.chan[n.token] = Tail(@)])
    ELSE CASE r.tag = "Event" -> Result(n, Event(r.ev), w)
           [] r.tag = "Continue" -> Result(n, Continue, w)
           [] r.tag = "Value" -> Result(n, Continue, w)

\* A pending connection that accept answers with an error other than
\* WouldBlock; the connections themselves are numbered from 1
AcceptError == 0

\* System::reregister: poll.reregister(inner, token, interest, edge). The
\* selector queues the token again if the handle is ready at that time
Reregister(w, n) ==
    [w EXCEPT !.rereg = Append(@, [token |-> n.token, interest |-> n.interest]),
              !.ready = IF w.chan[n.token] # <<>> THEN @ \cup {n.token} ELSE @]

\* The world after accept took what stood first in the queue of the
\* listener: with nothing left to accept the listener is not readable any
\* more, and the selector gives no event for a handle that is not ready
Taken(w, n) ==
    [w EXCEPT !.chan[n.token] = Tail(@),
              !.ready = IF Tail(w.chan[n.token]) = <<>> THEN @ \ {n.token} ELSE @]

\* TcpListener::accept: "Ok" with the connection, "WouldBlock" or "Err".
\* An error of the call itself (EMFILE: no descriptor for the connection)
\* comes before the queue is looked at and leaves the queue and the
\* selector as they were; an error that a connection brings with it takes
\* that connection out of the queue
TcpAccept(w, n) ==
    LET q == w.chan[n.token]
    IN  IF w.nofile
        THEN [res |-> "Err", val |-> 0, w |-> w]
        ELSE IF q = <<>>
        THEN [res |-> "WouldBlock", val |-> 0, w |-> w]
        ELSE IF Head(q) = AcceptError
        THEN [res |-> "Err", val |-> 0, w |-> Taken(w, n)]
        ELSE [res |-> "Ok", val |-> Head(q), w |-> Taken(w, n)]

\* mio_uds UnixListener::accept: Ok(Some(connection)), Ok(None) when no
\* connection is waiting, or Err, of the call itself or of the connection
\* as for TCP
UdsAccept(w, n) ==
    LET q == w.chan[n.token]
    IN  IF w.nofile
        THEN [res |-> "Err", val |-> 0, w |-> w]
        ELSE IF q = <<>>
        THEN [res |-> "None", val |-> 0, w |-> w]
        ELSE IF Head(q) = AcceptError
        THEN [res |-> "Err", val |-> 0, w |-> Taken(w, n)]
        ELSE [res |-> "Ok", val |-> Head(q), w |-> Taken(w, n)]

\* The match on the result of accept, the same in both listeners
AcceptReaction(n, a) ==
    CASE a.res = "Ok" -> Result(n, Value(a.val), a.w)
      [] a.res = "None" -> Result(n, Continue, a.w)
      [] a.res = "WouldBlock" -> Result(n, Continue, Reregister(a.w, n))
      [] a.res = "Err" -> Result(n, Continue, a.w)

\* ReactiveTcpListener::react
TcpReact(n, r, w) ==
    CASE r.tag = "Event" ->
            IF n.token = r.ev.token
            THEN AcceptReaction(n, TcpAccept(w, n))
            ELSE Result(n, Event(r.ev), w)
      [] r.tag = "Continue" -> AcceptReaction(n, TcpAccept(w, n))
      [] r.tag = "Value" -> Result(n, Continue, w)

\* ReactiveUdsListener::react
UdsReact(n, r, w) ==
    CASE r.tag = "Event" ->
            IF n.token = r.ev.token
            THEN AcceptReaction(n, UdsAccept(w, n))
            ELSE Result(n, Event(r.ev), w)
      [] r.tag = "Continue" -> AcceptReaction(n, UdsAccept(w, n))
      [] r.tag = "Value" -> Result(n, Continue, w)

RECURSIVE React(_, _, _)
RECURSIVE ChainLoop(_, _, _, _)

\* Body(e), with e computed once
Bind(e, Body(_)) == CHOOSE y \in {Body(x) : x \in {e}} : TRUE

\* Map::react
MapReact(n, r, w) ==
    Bind(React(n.source, r, w), LAMBDA s :
        IF s.out.tag = "Value"
        THEN Bind(Apply(n.callback, s.out.val, s.w), LAMBDA a :
                Result([n EXCEPT !.source = s.node], Value(a.val), a.w))
        ELSE Result([n EXCEPT !.source = s.node], s.out, s.w))

ChainResult(from, to, out, w) == [from |-> from, to |-> to, out |-> out, w |-> w]

\* The loop with a value of `from` dropped instead of handed to `to`.
ChainLoop_DropValue(from, to, r1, w) ==
    CASE r1.tag = "Event" ->
            Bind(React(to, r1, w), LAMBDA t : ChainResult(from, t.node, t.out, t.w))
      [] r1.tag = "Value" ->
            Bind(React(from, Continue, w), LAMBDA f : ChainLoop(f.node, to, f.out, f.w))
      [] r1.tag = "Continue" ->
            Bind(React(to, Continue, w), LAMBDA t :
                IF t.out.tag = "Continue"
                THEN ChainResult(from, t.node, Continue, t.w)
                ELSE ChainLoop(from, t.node, r1, t.w))

\* The loop with an event of `from` returned without asking `to`.
ChainLoop_EventNotPassed(from, to, r1, w) ==
    CASE r1.tag = "Event" -> ChainResult(from, to, r1, w)
      [] r1.tag = "Value" ->
            Bind(React(to, Value(r1.val), w), LAMBDA t :
                Bind(React(from, Continue, t.w), LAMBDA f :
                    ChainLoop(f.node, t.node, f.out, f.w)))
      [] r1.tag = "Continue" ->
            Bind(React(to, Continue, w), LAMBDA t :
                IF t.out.tag = "Continue"
                THEN ChainResult(from, t.node, Continue, t.w)
                ELSE ChainLoop(from, t.node, r1, t.w))

\* The loop of Chain::react on r1, the last reaction of `from`:
\*   Event(_)  => break self.to.react(r1)
\*   Value(v)  => self.to.react(Value(v)), result dropped; r1 = self.from.react(Continue)
\*   Continue  => break Continue if self.to.react(Continue) is Continue, else loop
ChainLoop(from, to, r1, w) ==
    CASE r1.tag = "Event" ->
            Bind(React(to, r1, w), LAMBDA t : ChainResult(from, t.node, t.out, t.w))
      [] r1.tag = "Value" ->
            Bind(React(to, Value(r1.val), w), LAMBDA t :
                Bind(React(from, Continue, t.w), LAMBDA f :
                    ChainLoop(f.node, t.node, f.out, f.w)))
      [] r1.tag = "Continue" ->
            Bind(React(to, Continue, w), LAMBDA t :
                IF t.out.tag = "Continue"
                THEN ChainResult(from, t.node, Continue, t.w)
                ELSE ChainLoop(from, t.node, r1, t.w))

\* Chain::react
ChainReact(n, r, w) ==
    Bind(React(n.from, r, w), LAMBDA f :
        Bind(ChainLoop(f.node, n.to, f.out, f.w), LAMBDA c :
            Result([n EXCEPT !.from = c.from, !.to = c.to], c.out, c.w)))

\* Every value goes to the first reactor.
OrReact_AlwaysFirst(n, r, w) ==
    CASE r.tag = "Value" ->
            Bind(React(n.first, Value(Payload(r.val)), w), LAMBDA f :
                Result([n EXCEPT !.first = f.node], f.out, f.w))
      [] r.tag = "Event" ->
            Bind(React(n.first, Event(r.ev), w), LAMBDA f :
                Bind(React(n.second, Event(r.ev), f.w), LAMBDA g :
                    Result([n EXCEPT !.first = f.node, !.second = g.node], Event(r.ev), g.w)))
      [] r.tag = "Continue" -> Result(n, Continue, w)

\* Or::react
OrReact(n, r, w) ==
    CASE r.tag = "Value" ->
            IF Side(r.val) = "A"
            THEN Bind(React(n.first, Value(Payload(r.val)), w), LAMBDA f :
                    Result([n EXCEPT !.first = f.node], f.out, f.w))
            ELSE Bind(React(n.second, Value(Payload(r.val)), w), LAMBDA g :
                    Result([n EXCEPT !.second = g.node], g.out, g.w))
      [] r.tag = "Event" ->
            Bind(React(n.first, Event(r.ev), w), LAMBDA f :
                Bind(React(n.second, Event(r.ev), f.w), LAMBDA g :
                    Result([n EXCEPT !.first = f.node, !.second = g.node], Event(r.ev), g.w)))
      [] r.tag = "Continue" -> Result(n, Continue, w)

\* The event is given to the first reactor only.
AndReact_SkipSecond(n, r, w) ==
    IF r.tag = "Event"
    THEN Bind(React(n.first, Event(r.ev), w), LAMBDA f :
            Result([n EXCEPT !.first = f.node], Event(r.ev), f.w))
    ELSE Result(n, Continue, w)

\* And::react
AndReact(n, r, w) ==
    IF r.tag = "Event"
    THEN Bind(React(n.first, Event(r.ev), w), LAMBDA f :
            Bind(React(n.second, Event(r.ev), f.w), LAMBDA g :
                Result([n EXCEPT !.first = f.node, !.second = g.node], Event(r.ev), g.w)))
    ELSE Result(n, Continue, w)

\* Stream::react that takes the readable flag of the event only
StreamReact_ReadableOnly(h, r) ==
    IF r.tag = "Event"
    THEN IF r.ev.token # h.token
         THEN [h |-> h, out |-> r]
         ELSE [h |-> [h EXCEPT !.is_readable = @ \/ r.ev.readable],
               out |-> Value(Unit)]
    ELSE [h |-> h, out |-> r]

\* Stream::react: the handle afterwards and the reaction returned
StreamReact(h, r) ==
    IF r.tag = "Event"
    THEN IF r.ev.token # h.token
         THEN [h |-> h, out |-> r]
         ELSE [h |-> [h EXCEPT !.is_readable = @ \/ r.ev.readable,
                               !.is_writable = @ \/ r.ev.writable],
               out |-> Value(Unit)]
    ELSE [h |-> h, out |-> r]

\* The reactors of sync::queue, sync::broadcast and net::stream as nodes of
\* a graph: `inner` of a deque is what its stealer can take and `retry` how
\* many times the stealer answers Steal::Retry first; `publishers` and
\* `subscribers` are the signal channels written to
DequeNode(id, token, inner, retry) ==
    [kind |-> "Deque", id |-> id, token |-> token, inner |-> inner, retry |-> retry]
QueueNode(id, publishers) == [kind |-> "Queue", id |-> id, inner |-> <<>>, publishers |-> publishers]
BroadcastNode(id, subscribers) == [kind |-> "Broadcast", id |-> id, subscribers |-> subscribers]
StreamNode(id, token) ==
    [kind |-> "Stream", id |-> id, token |-> token, interest |-> {"readable", "writable"},
     is_readable |-> FALSE, is_writable |-> FALSE]

RECURSIVE SendAll(_, _, _)
\* iter().for_each(|p| p.send(v)) over signal senders
SendAll(w, tokens, v) ==
    IF tokens = <<>> THEN w ELSE SendAll(SignalSend(w, Head(tokens), v), Tail(tokens), v)

RECURSIVE DequeStealFrom(_, _)
\* ReactiveDeque::steal, a loop over Dequeue::steal: each pass takes one
\* signal if there is one and asks the stealer; Retry starts the next pass
DequeStealFrom(n, w) ==
    LET w1 == IF w.chan[n.token] # <<>> THEN [w EXCEPT !.chan[n.token] = Tail(@)] ELSE w
    IN  IF n.retry > 0
        THEN DequeStealFrom([n EXCEPT !.retry = @ - 1], w1)
        ELSE IF n.inner # <<>>
        THEN Result([n EXCEPT !.inner = Tail(@)], Value(Head(n.inner)), w1)
        ELSE Result(n, Continue, w1)

\* ReactiveDeque::react
DequeReact(n, r, w) ==
    CASE r.tag = "Event" ->
            IF r.ev.token # n.token THEN Result(n, Event(r.ev), w) ELSE DequeStealFrom(n, w)
      [] r.tag = "Value" -> Result(n, Continue, w)
      [] r.tag = "Continue" -> DequeStealFrom(n, w)

\* ReactiveQueue::react: if let Value(value) { push; Value(()) } else { Continue }
QueueReact(n, r, w) ==
    IF r.tag = "Value"
    THEN Result([n EXCEPT !.inner = Append(@, r.val)], Value(Unit), SendAll(w, n.publishers, Unit))
    ELSE Result(n, Continue, w)

\* ReactiveBroadcast::react
BroadcastReact(n, r, w) ==
    CASE r.tag = "Value" -> Result(n, Value(Unit), SendAll(w, n.subscribers, r.val))
      [] r.tag = "Event" -> Result(n, Event(r.ev), w)
      [] r.tag = "Continue" -> Result(n, Continue, w)

\* Stream::react of a stream that is a node of a graph
StreamNodeReact(n, r, w) ==
    LET res == StreamReact([token |-> n.token, interest |-> n.interest,
                            is_readable |-> n.is_readable, is_writable |-> n.is_writable], r)
    IN  Result([n EXCEPT !.is_readable = res.h.is_readable,
                         !.is_writable = res.h.is_writable], res.out, w)

\* The react of each kind of reactor
ReactOf(n, r, w) ==
    CASE n.kind = "Gen" -> GenReact(n, r, w)
      [] n.kind = "Mono" -> MonoReact(n, r, w)
      [] n.kind = "Consumer" -> ConsumerReact(n, r, w)
      [] n.kind = "Sig" -> SigReact(n, r, w)
      [] n.kind = "Map" -> MapReact(n, r, w)
      [] n.kind = "Chain" -> ChainReact(n, r, w)
      [] n.kind = "And" -> AndReact(n, r, w)
      [] n.kind = "Or" -> OrReact(n, r, w)
      [] n.kind = "Tcp" -> TcpReact(n, r, w)
      [] n.kind = "Uds" -> UdsReact(n, r, w)
      [] n.kind = "Deque" -> DequeReact(n, r, w)
      [] n.kind = "Queue" -> QueueReact(n, r, w)
      [] n.kind = "Broadcast" -> BroadcastReact(n, r, w)
      [] n.kind = "Stream" -> StreamNodeReact(n, r, w)

\* Reactor::react of any reactor, with the call and its return logged
React(n, r, w) ==
    Bind(Logged(w, n.id, "call", r), LAMBDA w1 :
        Bind(ReactOf(n, r, w1), LAMBDA res :
            Result(res.node, res.out, Logged(res.w, n.id, "ret", res.out))))

\* ------------------------------------------------------------------------
\* Reactor graphs driven call by call
\* ------------------------------------------------------------------------
RECURSIVE SeqsUpTo(_, _)
\* The sequences over S of length at most n
SeqsUpTo(S, n) ==
    IF n = 0 THEN {<<>>}
    ELSE LET shorter == SeqsUpTo(S, n - 1)
         IN  shorter \cup {Append(q, x) : q \in shorter, x \in S}

GenValues == 1..MaxGen
GenContents == SeqsUpTo(GenValues, MaxGen)

\* tests/test_consumer.rs: generator -> map -> chain(map -> map); the last
\* closure stops the System at the doubled last value
ShapeConsumer(vals) ==
    ChainNode("run",
        MapNode("gen_map", GenNode("gen", 1, vals), Closure("id", 0)),
        ChainNode("inner",
            MapNode("multiplier", ConsumerNode("con1"), Closure("double", 0)),
            MapNode("printer", ConsumerNode("con2"), Closure("stop_if", 2 * MaxGen))))

\* A Mono<()> chained into a generator: the second stage has values of its
\* own to give when asked with Continue
ShapeDrain(vals) ==
    ChainNode("run", MonoNode("mono", 1, Unit), GenNode("gen", 2, vals))

\* A generator of () chained into a signal receiver whose values a closure
\* sees
ShapeSignal(n) ==
    ChainNode("run",
        GenNode("gen", 1, [k \in 1..n |-> Unit]),
        MapNode("sig_map", SigNode("sig", 2), Closure("stop_if", MaxGen)))

\* Two sources joined with and: a generator whose values a closure doubles,
\* and a Mono; each owns a token
ShapeAnd(vals) ==
    AndNode("run",
        ChainNode("first",
            GenNode("gen", 1, vals),
            MapNode("multiplier", ConsumerNode("con1"), Closure("double", 0))),
        MonoNode("mono", 2, Unit))

\* int_consumer.or(string_consumer.map(|_| 0))
ShapeOr ==
    OrNode("or", ConsumerNode("int"),
        MapNode("string_map", ConsumerNode("string"), Closure("zero", 0)))

\* tests/test_or.rs: a Mono whose value a closure makes an Either, chained
\* into the Or; the last closure stops the System
ShapeEither(v) ==
    ChainNode("run",
        MapNode("mono_map", MonoNode("mono", 1, v), Closure("either", 1)),
        MapNode("or_map", ShapeOr, Closure("stop", 0)))

\* The channels of a thread: the control channel and that of the receiver
Channels(q) == [t \in {SYSTEM_TOKEN, 2} |-> IF t = 2 THEN q ELSE <<>>]

RECURSIVE StartTokens(_)
\* Tokens the selector has queued after the constructors: ReactiveGenerator::new
\* and Mono::new set their readiness, and Stream::new registers a connected
\* socket, which is writable, with the interest readable | writable
StartTokens(n) ==
    CASE n.kind \in {"Gen", "Mono", "Stream"} -> {n.token}
      [] n.kind = "Map" -> StartTokens(n.source)
      [] n.kind = "Chain" -> StartTokens(n.from) \cup StartTokens(n.to)
      [] n.kind \in {"And", "Or"} -> StartTokens(n.first) \cup StartTokens(n.second)
      [] OTHER -> {}

\* Tokens made readable by SignalSender::send: set_readiness comes before
\* each send, so the token of a channel that holds values is readable
SentTokens(c) == {t \in DOMAIN c : c[t] # <<>>}

InitChain ==
    /\ TokensAtInit
    /\ NoNet
    /\ \/ \E v \in GenContents : root = ShapeConsumer(v) /\ chan = Channels(<<>>)
       \/ \E v \in GenContents : root = ShapeDrain(v) /\ chan = Channels(<<>>)
       \/ \E n \in 0..1, q \in GenContents : root = ShapeSignal(n) /\ chan = Channels(q)
       \/ \E v \in GenContents : root = ShapeAnd(v) /\ chan = Channels(<<>>)
       \/ \E v \in GenValues : root = ShapeEither(v) /\ chan = Channels(<<>>)
       \/ root = ShapeOr /\ chan = Channels(<<>>)
    /\ ready = StartTokens(root) \cup SentTokens(chan)
    /\ log = <<>>
    /\ lastIn = Continue
    /\ lastOut = Continue
    /\ NoLoop
    /\ NoSync

\* One call root.react(r)
Drive(r) ==
    \E res \in {React(root, r, World(<<>>, chan, ready))} :
        /\ root' = res.node
        /\ chan' = res.w.chan
        /\ ready' = res.w.ready
        /\ log' = res.w.log
        /\ lastIn' = r
        /\ lastOut' = res.out
        /\ UNCHANGED <<netVars, tokenVars, loopVars, syncVars>>

\* react(Event(e)), the token owned by a reactor of the graph or by none
ReactEvent == \E t \in 1..3 : Drive(Event(Ev(t)))

\* react(Continue)
ReactContinue == Drive(Continue)

\* The values of the Input type of the root
InputValues ==
    IF root.kind = "Or"
    THEN {EitherA(v) : v \in GenValues} \cup {EitherB(v) : v \in GenValues}
    ELSE GenValues

\* react(Value(v))
ReactValue == \E v \in InputValues : Drive(Value(v))

NextChain == ReactEvent \/ ReactContinue \/ ReactValue

SpecChain == InitChain /\ [][NextChain]_vars

\* ------------------------------------------------------------------------
\* Claims about Chain
\* ------------------------------------------------------------------------
RECURSIVE ChainsOf(_)
\* The chains of a graph: their ids and the ids of their two stages
ChainsOf(n) ==
    CASE n.kind = "Chain" ->
            {[id |-> n.id, from |-> n.from.id, to |-> n.to.id]}
                \cup ChainsOf(n.from) \cup ChainsOf(n.to)
      [] n.kind = "Map" -> ChainsOf(n.source)
      [] n.kind \in {"And", "Or"} -> ChainsOf(n.first) \cup ChainsOf(n.second)
      [] OTHER -> {}

Min(S) == CHOOSE x \in S : \A y \in S : x <= y

\* Positions in the log of the calls of a reactor
CallsOf(id) == {i \in 1..Len(log) : log[i].id = id /\ log[i].dir = "call"}

\* Position of the return of the call logged at i
RetOf(i) == Min({j \in (i + 1)..Len(log) : log[j].id = log[i].id /\ log[j].dir = "ret"})

\* Between positions i and j: what reactor id returned, and what it was called with
RetsIn(id, i, j) ==
    LET part == SelectSeq(SubSeq(log, i, j), LAMBDA x : x.id = id /\ x.dir = "ret")
    IN  [k \in 1..Len(part) |-> part[k].r]
ArgsIn(id, i, j) ==
    LET part == SelectSeq(SubSeq(log, i, j), LAMBDA x : x.id = id /\ x.dir = "call")
    IN  [k \in 1..Len(part) |-> part[k].r]

OnlyValues(rs) == SelectSeq(rs, LAMBDA x : x.tag = "Value")

\* C1: during one call of Chain.react the values `from` returns are the
\* values `to` is called with, in the same order and each once, for every
\* chain of the graph, nested ones included.
C1_ValuesReachToInOrder ==
    \A c \in ChainsOf(root) : \A i \in CallsOf(c.id) :
        OnlyValues(RetsIn(c.from, i, RetOf(i))) = OnlyValues(ArgsIn(c.to, i, RetOf(i)))

\* The generator of the nested graph gave two different values in one call
\* and the inner chain was called with their doubles.
C1_Witness ==
    /\ root.kind = "Chain" /\ root.to.kind = "Chain" /\ root.from.kind = "Map"
    /\ \E i \in CallsOf("run") :
          LET vs == OnlyValues(ArgsIn("inner", i, RetOf(i)))
          IN  Len(vs) >= 2 /\ vs[1].val # vs[2].val
    /\ \E i \in CallsOf("inner") :
          OnlyValues(ArgsIn("printer", i, RetOf(i))) = <<Value(2 * log[i].r.val)>>

\* C2: when `from` answers react(Event(e)) with Event(e), `to` is called
\* once, with Event(e), and the chain returns what `to` returned.
C2_EventPassedThrough ==
    \A c \in ChainsOf(root) : \A i \in CallsOf(c.id) :
        LET j == RetOf(i)
            fr == RetsIn(c.from, i, j)
        IN  (log[i].r.tag = "Event" /\ fr[1] = log[i].r)
                => /\ ArgsIn(c.to, i, j) = <<log[i].r>>
                   /\ RetsIn(c.to, i, j) = <<log[j].r>>

\* An event went past the first stage to the second, which owns its
\* token and answered it with a value.
C2_Witness ==
    \E c \in ChainsOf(root) : \E i \in CallsOf(c.id) :
        LET j == RetOf(i)
        IN  /\ log[i].r.tag = "Event"
            /\ RetsIn(c.from, i, j) = <<log[i].r>>
            /\ ArgsIn(c.to, i, j) = <<log[i].r>>
            /\ log[j].r.tag = "Value"

\* Calls of `to` with Continue between i and j
ContinueCalls(id, i, j) ==
    {k \in i..j : log[k].id = id /\ log[k].dir = "call" /\ log[k].r.tag = "Continue"}

\* `from` returned Continue during the chain call logged at i
FromReturnedContinue(c, i) ==
    LET fr == RetsIn(c.from, i, RetOf(i))
    IN  fr[Len(fr)].tag = "Continue"

\* C3: once `from` returns Continue, `to` is called with Continue exactly
\* once and the chain returns what that call returned: Continue if it was
\* Continue, and otherwise the Value `to` produced.
C3_ToAskedOnce ==
    \A c \in ChainsOf(root) : \A i \in CallsOf(c.id) :
        LET j == RetOf(i)
            ks == ContinueCalls(c.to, i, j)
        IN  FromReturnedContinue(c, i)
                => /\ Cardinality(ks) = 1
                   /\ \A k \in ks : log[j].r = log[RetOf(k)].r

\* ------------------------------------------------------------------------
\* Claims about And
\* ------------------------------------------------------------------------
RECURSIVE AndsOf(_)
\* The Ands of a graph: their ids and the ids of their two reactors
AndsOf(n) ==
    CASE n.kind = "And" ->
            {[id |-> n.id, first |-> n.first.id, second |-> n.second.id]}
                \cup AndsOf(n.first) \cup AndsOf(n.second)
      [] n.kind = "Chain" -> AndsOf(n.from) \cup AndsOf(n.to)
      [] n.kind = "Map" -> AndsOf(n.source)
      [] n.kind = "Or" -> AndsOf(n.first) \cup AndsOf(n.second)
      [] OTHER -> {}

\* C20: a call of And.react with Event(e) calls first with Event(e), and
\* after first returned calls second with Event(e), each once, and returns
\* Event(e) whatever the two returned; a call with a Value or with Continue
\* calls neither and returns Continue.
C20_AndGivesEventToBoth ==
    \A a \in AndsOf(root) : \A i \in CallsOf(a.id) :
        LET j == RetOf(i)
            r == log[i].r
        IN  IF r.tag = "Event"
            THEN /\ ArgsIn(a.first, i, j) = <<r>>
                 /\ ArgsIn(a.second, i, j) = <<r>>
                 /\ \A x \in CallsOf(a.first), y \in CallsOf(a.second) : RetOf(x) < y
                 /\ log[j].r = r
            ELSE /\ ArgsIn(a.first, i, j) = <<>>
                 /\ ArgsIn(a.second, i, j) = <<>>
                 /\ log[j].r = Continue

\* An And was called with an event; its first reactor returned the event,
\* its second one, called after that, returned a value, and the And returned
\* the event.
C20_Witness ==
    \E a \in AndsOf(root) : \E i \in CallsOf(a.id) :
        LET j == RetOf(i)
        IN  /\ log[i].r.tag = "Event"
            /\ \E x \in CallsOf(a.first) : log[RetOf(x)].r = log[i].r
            /\ \E y \in CallsOf(a.second) : log[RetOf(y)].r.tag = "Value"
            /\ log[j].r = log[i].r

\* ------------------------------------------------------------------------
\* Claims about Or
\* ------------------------------------------------------------------------
RECURSIVE OrsOf(_)
\* The Ors of a graph: their ids and the ids of their two reactors
OrsOf(n) ==
    CASE n.kind = "Or" ->
            {[id |-> n.id, first |-> n.first.id, second |-> n.second.id]}
                \cup OrsOf(n.first) \cup OrsOf(n.second)
      [] n.kind = "And" -> OrsOf(n.first) \cup OrsOf(n.second)
      [] n.kind = "Chain" -> OrsOf(n.from) \cup OrsOf(n.to)
      [] n.kind = "Map" -> OrsOf(n.source)
      [] OTHER -> {}

\* C22: a call of Or.react with Value(A(x)) calls first once with Value(x)
\* and not second, with Value(B(y)) second once with Value(y) and not first,
\* and returns what the called one returned; with Event(e) it calls both
\* once with Event(e) and returns Event(e); with Continue it calls neither
\* and returns Continue.
C22_OrRoutes ==
    \A o \in OrsOf(root) : \A i \in CallsOf(o.id) :
        LET j == RetOf(i)
            r == log[i].r
        IN  CASE r.tag = "Value" ->
                    LET mine == IF Side(r.val) = "A" THEN o.first ELSE o.second
                        other == IF Side(r.val) = "A" THEN o.second ELSE o.first
                    IN  /\ ArgsIn(mine, i, j) = <<Value(Payload(r.val))>>
                        /\ ArgsIn(other, i, j) = <<>>
                        /\ <<log[j].r>> = RetsIn(mine, i, j)
              [] r.tag = "Event" ->
                    /\ ArgsIn(o.first, i, j) = <<r>>
                    /\ ArgsIn(o.second, i, j) = <<r>>
                    /\ log[j].r = r
              [] r.tag = "Continue" ->
                    /\ ArgsIn(o.first, i, j) = <<>>
                    /\ ArgsIn(o.second, i, j) = <<>>
                    /\ log[j].r = Continue

\* In the graph of the test the Or was called with a B value: the second
\* reactor alone was called and the Or returned its 0.
C22_Witness ==
    /\ root.kind = "Chain"
    /\ \E o \in OrsOf(root) : \E i \in CallsOf(o.id) :
          /\ log[i].r.tag = "Value"
          /\ Side(log[i].r.val) = "B"
          /\ ArgsIn(o.second, i, RetOf(i)) # <<>>
          /\ log[RetOf(i)].r = Value(0)

\* ------------------------------------------------------------------------
\* System::start: the event loop (src/src/system.rs), and the threads that
\* send to it
\* ------------------------------------------------------------------------
\* The orders in which the selector can return the queued events
Batches(S) ==
    {[k \in 1..Cardinality(S) |-> Ev(f[k])] :
        f \in {g \in [1..Cardinality(S) -> S] : \A a, b \in 1..Cardinality(S) : a # b => g[a] # g[b]}}

\* Every event counted as the System's own.
IsSystemEvent_Any(e) == TRUE

\* event.token() == SYSTEM_TOKEN
IsSystemEvent(e) == e.token = SYSTEM_TOKEN

\* rx.map(closure) on a signal receiver: the closure stops the System at
\* the last value sent
ShapeReceiver ==
    MapNode("sig_map", SigNode("sig", 2), Closure("stop_if", MaxSends))

Init ==
    /\ TokensAtInit
    /\ NoNet
    /\ root \in {ShapeConsumer([k \in 1..MaxGen |-> k]), ShapeSignal(1), ShapeReceiver}
    /\ chan = Channels(<<>>)
    /\ ready = StartTokens(root)
    /\ log = <<>>
    /\ lastIn = Continue
    /\ lastOut = Continue
    /\ pc = "poll"
    /\ events = <<>>
    /\ idx = 0
    /\ calls = <<>>
    /\ stopper = "idle"
    /\ feeder = [sent |-> 0, pc |-> "idle"]
    /\ NoSync

\* poll.poll(&mut events, None): blocks until a notification is queued, then
\* takes all of them
Poll ==
    /\ pc = "poll"
    /\ ready # {}
    /\ events' \in Batches(ready)
    /\ ready' = {}
    /\ idx' = 1
    /\ pc' = "loop"
    /\ calls' = <<>>
    /\ UNCHANGED <<netVars, tokenVars, syncVars, root, chan, log, lastIn, lastOut, stopper, feeder>>

\* The for loop goes to its next event, or ends and the outer loop polls
Advance ==
    IF idx < Len(events)
    THEN idx' = idx + 1 /\ pc' = "loop"
    ELSE idx' = idx /\ pc' = "poll"

\* The event of the control channel: one try_recv; Stop breaks the outer loop
HandleSystemEvent ==
    /\ pc = "loop"
    /\ IsSystemEvent(events[idx])
    /\ IF chan[SYSTEM_TOKEN] # <<>>
       THEN /\ chan' = [chan EXCEPT ![SYSTEM_TOKEN] = Tail(@)]
            /\ pc' = "returned"
            /\ idx' = idx
       ELSE /\ chan' = chan
            /\ Advance
    /\ UNCHANGED <<netVars, tokenVars, syncVars, root, ready, log, lastIn, lastOut, events, calls, stopper, feeder>>

\* reactor.react(r) made by start; a Value keeps the loop at this event
RootReact(r) ==
    \E res \in {React(root, r, World(<<>>, chan, ready))} :
        /\ root' = res.node
        /\ chan' = res.w.chan
        /\ ready' = res.w.ready
        /\ lastIn' = r
        /\ lastOut' = res.out
        /\ calls' = Append(calls, [in |-> r, out |-> res.out, idx |-> idx])
        /\ IF res.out.tag = "Value"
           THEN pc' = "drain" /\ idx' = idx
           ELSE Advance
        /\ UNCHANGED <<netVars, tokenVars, syncVars, log, events, stopper, feeder>>

\* Any other event: reactor.react(Reaction::Event(event))
DeliverEvent ==
    /\ pc = "loop"
    /\ ~IsSystemEvent(events[idx])
    /\ RootReact(Event(events[idx]))

\* The loop left after one react(Continue), whatever it returned.
DrainContinue_Once ==
    /\ pc = "drain"
    /\ \E res \in {React(root, Continue, World(<<>>, chan, ready))} :
           /\ root' = res.node
           /\ chan' = res.w.chan
           /\ ready' = res.w.ready
           /\ lastIn' = Continue
           /\ lastOut' = res.out
           /\ calls' = Append(calls, [in |-> Continue, out |-> res.out, idx |-> idx])
           /\ Advance
           /\ UNCHANGED <<netVars, tokenVars, syncVars, log, events, stopper, feeder>>

\* while let Reaction::Value(_) = reactor.react(Reaction::Continue) { }
DrainContinue ==
    /\ pc = "drain"
    /\ RootReact(Continue)

\* SignalSender::send(Stop) on another thread, first half: set_readiness
StopSetReadiness ==
    /\ pc # "returned"
    /\ stopper = "idle"
    /\ stopper' = "set"
    /\ ready' = ready \cup {SYSTEM_TOKEN}
    /\ UNCHANGED <<netVars, tokenVars, syncVars, root, chan, log, lastIn, lastOut, pc, events, idx, calls, feeder>>

\* ... second half: the channel send
StopEnqueue ==
    /\ pc # "returned"
    /\ stopper = "set"
    /\ stopper' = "done"
    /\ chan' = [chan EXCEPT ![SYSTEM_TOKEN] = Append(@, "Stop")]
    /\ UNCHANGED <<netVars, tokenVars, syncVars, root, ready, log, lastIn, lastOut, pc, events, idx, calls, feeder>>

\* SignalSender::send(v) to the signal receiver on another thread, first
\* half: set_readiness
FeedSetReadiness ==
    /\ pc # "returned"
    /\ feeder.pc = "idle"
    /\ feeder.sent < MaxSends
    /\ feeder' = [feeder EXCEPT !.pc = "set"]
    /\ ready' = ready \cup {2}
    /\ UNCHANGED <<netVars, tokenVars, syncVars, root, chan, log, lastIn, lastOut, pc, events, idx, calls, stopper>>

\* ... second half: the channel send
FeedEnqueue ==
    /\ pc # "returned"
    /\ feeder.pc = "set"
    /\ feeder' = [sent |-> feeder.sent + 1, pc |-> "idle"]
    /\ chan' = [chan EXCEPT ![2] = Append(@, feeder.sent + 1)]
    /\ UNCHANGED <<netVars, tokenVars, syncVars, root, ready, log, lastIn, lastOut, pc, events, idx, calls, stopper>>

Engine == Poll \/ HandleSystemEvent \/ DeliverEvent \/ DrainContinue
Stopper == StopSetReadiness \/ StopEnqueue
Feeder == FeedSetReadiness \/ FeedEnqueue

Next ==
    \/ Poll
    \/ HandleSystemEvent
    \/ DeliverEvent
    \/ DrainContinue
    \/ StopSetReadiness
    \/ StopEnqueue
    \/ FeedSetReadiness
    \/ FeedEnqueue

Spec == Init /\ [][Next]_vars

\* The threads are scheduled: a step that stays possible is taken
FairSpec ==
    Init /\ [][Next]_vars /\ WF_vars(Engine) /\ WF_vars(Stopper) /\ WF_vars(Feeder)

\* ------------------------------------------------------------------------
\* Claims about the event loop
\* ------------------------------------------------------------------------
\* Events start handed to the root since the last poll, in the order handed
DeliveredEvents ==
    LET part == SelectSeq(calls, LAMBDA c : c.in.tag = "Event")
    IN  [k \in 1..Len(part) |-> part[k].in.ev]

NonSystem(es) == SelectSeq(es, LAMBDA e : e.token # SYSTEM_TOKEN)

\* Number of events of the batch the for loop is done with or busy with
Reached == IF pc = "loop" THEN idx - 1 ELSE idx

\* C4: after root.react(Event(e)) returned Value, start calls
\* root.react(Continue) at the same event, again after every Value, and the
\* last of these calls is one that returned Continue.
C4_DrainedUntilContinue ==
    \A k \in 1..Len(calls) :
        /\ calls[k].out.tag = "Value" =>
              IF k = Len(calls)
              THEN pc = "drain" /\ idx = calls[k].idx
              ELSE calls[k + 1].in = Continue /\ calls[k + 1].idx = calls[k].idx
        /\ (/\ calls[k].in = Continue
            /\ (k = Len(calls) => pc # "drain")
            /\ (k < Len(calls) => calls[k + 1].in # Continue))
              => calls[k].out = Continue

\* An event gave a value, react(Continue) gave another one and the next
\* react(Continue) returned Continue.
C4_Witness ==
    \E k \in 1..Len(calls) :
        /\ k + 2 <= Len(calls)
        /\ calls[k].in.tag = "Event" /\ calls[k].out.tag = "Value"
        /\ calls[k + 1].in = Continue /\ calls[k + 1].out.tag = "Value"
        /\ calls[k + 2].in = Continue /\ calls[k + 2].out = Continue
        /\ pc # "drain"

\* C5 as stated: every event of a batch whose token is not 0 is handed to
\* the root once, in the order of the batch, and no event with token 0 is.
C5_EveryEventDelivered ==
    pc \in {"poll", "returned"} => DeliveredEvents = NonSystem(events)

\* C5 as amended: the events handed to the root are, once each and in the
\* order of the batch, the events with a token other than 0 that the for
\* loop has reached (a Stop ends the loop before the rest of the batch);
\* a call with Continue belongs to the event handed over last.
C5_ReachedEventsDelivered ==
    /\ DeliveredEvents = NonSystem(SubSeq(events, 1, Reached))
    /\ \A k \in 1..Len(calls) :
          IF calls[k].in.tag = "Event"
          THEN /\ events[calls[k].idx] = calls[k].in.ev
               /\ k > 1 => calls[k - 1].idx < calls[k].idx
          ELSE k > 1 /\ calls[k - 1].idx = calls[k].idx

\* A batch with the control event between two other events was gone
\* through to its end.
C5_Witness ==
    /\ pc = "poll"
    /\ Len(events) = 3
    /\ events[2].token = SYSTEM_TOKEN
    /\ Len(DeliveredEvents) = 2

\* C6: once a Stop is in the control channel, System::start returns.
C6_StopReturns == (chan[SYSTEM_TOKEN] # <<>>) ~> (pc = "returned")

\* C7 as stated: when start returns, every event of the last batch with a
\* token other than 0 was handed to the root, those after the control
\* event included.
C7_BatchFinishedBeforeReturn ==
    pc = "returned" =>
        \A k \in 1..Len(events) :
            events[k].token # SYSTEM_TOKEN => \E c \in 1..Len(calls) : calls[c].idx = k

\* C7 as amended: start returns as soon as the control event gives a Stop:
\* the events of the batch before it were handed to the root and those
\* after it are not.
C7_ReturnsAtControlEvent ==
    pc = "returned" =>
        /\ events[idx].token = SYSTEM_TOKEN
        /\ \A k \in 1..Len(events) :
              (\E c \in 1..Len(calls) : calls[c].idx = k)
                  <=> (k < idx /\ events[k].token # SYSTEM_TOKEN)

\* start returned at a control event that had an event before it and one
\* after it in the batch.
C7_Witness ==
    /\ pc = "returned"
    /\ 1 < idx /\ idx < Len(events)

\* ------------------------------------------------------------------------
\* Signal channel (src/src/sync/signal.rs): a crossbeam channel and a mio
\* Registration; the senders are other threads
\* ------------------------------------------------------------------------
\* enum Capacity { Unbounded, Bounded(usize) }
Unbounded == [bounded |-> FALSE, n |-> 0]
Bounded(n) == [bounded |-> TRUE, n |-> n]

\* SignalReceiver::from(capacity): an empty channel with its registration
NewSignal == [q |-> <<>>, ready |-> FALSE, dropped |-> FALSE]

\* A thread that calls SignalSender::send: `to` is the channel it sends to,
\* `sent` the number of its sends that returned
NewThread(kind) == [kind |-> kind, pc |-> "idle", to |-> 1, sent |-> 0, n |-> 1, seen |-> <<>>]

\* The value a thread sends next
NextVal(t) == [from |-> t, n |-> thr[t].sent + 1]

\* A bounded channel takes any number of values.
HasRoom_Always(c, cp) == TRUE

\* Sender::send of crossbeam finds a free place (a channel of capacity 0
\* has none: the value goes to a receiver that is receiving)
HasRoom(c, cp) == ~cp.bounded \/ Len(c.q) < cp.n

\* A value put at the head of the channel.
ChannelSend_Front(c, v) == [c EXCEPT !.q = <<v>> \o @]

\* sender.send(val) with a free place: the value goes to the tail
ChannelSend(c, v) == [c EXCEPT !.q = Append(@, v)]

\* The head returned and left in the channel.
ChannelRecv_Peek(c) == c

\* receiver.try_recv() on a channel that holds a value: the head leaves
ChannelRecv(c) == [c EXCEPT !.q = Tail(@)]

\* A send that does not call set_readiness
SetReadable_Never(c) == c

\* set_readiness(Ready::readable()); nothing to notify once the receiver
\* and its registration are dropped
SetReadable(c) == IF c.dropped THEN c ELSE [c EXCEPT !.ready = TRUE]

\* The thread after its send returned
AfterSend(th) ==
    CASE th.kind = "publisher" ->
            IF th.to < th.n
            THEN [th EXCEPT !.pc = "set", !.to = @ + 1]
            ELSE [th EXCEPT !.pc = "unlock"]
      [] th.kind = "pusher" ->
            IF th.to < th.n
            THEN [th EXCEPT !.pc = "set", !.to = @ + 1]
            ELSE [th EXCEPT !.pc = "idle", !.to = 1, !.sent = @ + 1]
      [] OTHER -> [th EXCEPT !.pc = "idle", !.sent = @ + 1]

\* A failed send ends the loop over the subscribers.
ThreadSend_StopOnDropped(t, v) ==
    /\ thr[t].pc = "send"
    /\ IF sig[thr[t].to].dropped
       THEN /\ sig' = sig
            /\ thr' = [thr EXCEPT ![t].pc = "unlock"]
       ELSE /\ ~capacity.bounded \/ Len(sig[thr[t].to].q) < capacity.n
            /\ sig' = [sig EXCEPT ![thr[t].to].q = Append(@, v)]
            /\ thr' = [thr EXCEPT ![t] = AfterSend(@)]

\* Threads inside sender.send(val) on channel i
Waiting(i) == {t \in DOMAIN thr : thr[t].pc = "send" /\ thr[t].to = i}

\* SignalSender::send, first line: set_readiness
ThreadSetReadiness(t) ==
    /\ thr[t].pc = "set"
    /\ sig' = [sig EXCEPT ![thr[t].to] = SetReadable(@)]
    /\ thr' = [thr EXCEPT ![t].pc = "send"]

\* SignalSender::send, second line: sender.send(val)? blocks while the
\* channel is full and fails once the receiver is dropped
ThreadSend(t, v) ==
    /\ thr[t].pc = "send"
    /\ IF sig[thr[t].to].dropped
       THEN sig' = sig
       ELSE /\ HasRoom(sig[thr[t].to], capacity)
            /\ sig' = [sig EXCEPT ![thr[t].to] = ChannelSend(@, v)]
    /\ thr' = [thr EXCEPT ![t] = AfterSend(@)]

\* try_recv on channel i: the outcomes, each with the channels and threads
\* after it. A channel of capacity 0 hands over the value of a thread that
\* waits in send, if one does already.
TryRecvOutcomes(i, vals) ==
    IF sig[i].q # <<>>
    THEN {[res |-> "Ok", val |-> Head(sig[i].q),
           sig |-> [sig EXCEPT ![i] = ChannelRecv(@)], thr |-> thr]}
    ELSE {[res |-> "Empty", val |-> Unit, sig |-> sig, thr |-> thr]}
         \cup {[res |-> "Ok", val |-> vals[t], sig |-> sig,
                thr |-> [thr EXCEPT ![t] = AfterSend(@)]] :
                  t \in {u \in Waiting(i) : capacity = Bounded(0)}}

\* ------------------------------------------------------------------------
\* A receiver and its senders: SignalSender clones send from their threads
\* while the receiver calls try_recv
\* ------------------------------------------------------------------------
InitSignal ==
    /\ TokensAtInit
    /\ NoNet
    /\ NoGraph
    /\ capacity \in {Unbounded} \cup {Bounded(n) : n \in 1..MaxCap}
    /\ sig = <<NewSignal>>
    /\ thr = [t \in 1..MaxSenders |-> NewThread("sender")]
    /\ con = <<>>
    /\ dq = <<>>
    /\ lock = <<>>
    /\ ops = <<>>

\* A sender enters send(v): set_readiness
SenderSetReadiness ==
    \E t \in DOMAIN thr :
        /\ thr[t].kind = "sender"
        /\ thr[t].pc = "idle"
        /\ thr[t].sent < MaxSends
        /\ sig' = [sig EXCEPT ![1] = SetReadable(@)]
        /\ thr' = [thr EXCEPT ![t].pc = "send"]
        /\ UNCHANGED <<netVars, tokenVars, graphVars, capacity, con, dq, lock, ops>>

\* ... and its sender.send(val) returns
SenderSend ==
    \E t \in DOMAIN thr :
        /\ thr[t].kind = "sender"
        /\ ThreadSend(t, NextVal(t))
        /\ ops' = Append(ops, [op |-> "send", val |-> NextVal(t), before |-> Len(sig[1].q)])
        /\ UNCHANGED <<netVars, tokenVars, graphVars, capacity, con, dq, lock>>

\* SignalReceiver::try_recv
TryRecv ==
    /\ Len(ops) < MaxOps
    /\ \E o \in TryRecvOutcomes(1, [t \in DOMAIN thr |-> NextVal(t)]) :
        /\ sig' = o.sig
        /\ thr' = o.thr
        /\ ops' = Append(ops, [op |-> "recv", res |-> o.res, val |-> o.val,
                               before |-> Len(sig[1].q)])
    /\ UNCHANGED <<netVars, tokenVars, graphVars, capacity, con, dq, lock>>

NextSignal == SenderSetReadiness \/ SenderSend \/ TryRecv

SpecSignal == InitSignal /\ [][NextSignal]_vars

\* ------------------------------------------------------------------------
\* Claims about the signal channel
\* ------------------------------------------------------------------------
\* The values try_recv returned, oldest first
Received ==
    LET oks == SelectSeq(ops, LAMBDA o : o.op = "recv" /\ o.res = "Ok")
    IN  [k \in 1..Len(oks) |-> oks[k].val]

\* The sends that returned, oldest first
Sent ==
    LET ss == SelectSeq(ops, LAMBDA o : o.op = "send")
    IN  [k \in 1..Len(ss) |-> ss[k].val]

\* C11: a send(v) on an empty channel followed by try_recv gives v to that
\* try_recv, and a second try_recv right after it finds the channel empty.
C11_SendThenRecvRoundTrip ==
    \A k \in 1..Len(ops) :
        (/\ ops[k].op = "send" /\ ops[k].before = 0
         /\ k < Len(ops) /\ ops[k + 1].op = "recv")
            => /\ ops[k + 1].res = "Ok"
               /\ ops[k + 1].val = ops[k].val
               /\ (k + 2 <= Len(ops) /\ ops[k + 2].op = "recv")
                     => ops[k + 2].res = "Empty"

\* send(v) on an empty channel, then two try_recv.
C11_Witness ==
    \E k \in 1..Len(ops) :
        /\ k + 2 <= Len(ops)
        /\ ops[k].op = "send" /\ ops[k].before = 0
        /\ ops[k + 1].op = "recv" /\ ops[k + 1].val = ops[k].val
        /\ ops[k + 2].op = "recv" /\ ops[k + 2].res = "Empty"

\* C12: the values successive try_recv calls returned hold the values of
\* each sender in the order that sender sent them, none twice.
C12_PerSenderFifo ==
    \A t \in DOMAIN thr :
        LET mine == SelectSeq(Received, LAMBDA v : v.from = t)
        IN  \A k \in 1..Len(mine) : mine[k].n = k

\* try_recv returned two values of one sender and, between them, a value
\* of another sender.
C12_Witness ==
    \E i, j, k \in 1..Len(Received) :
        /\ i < j /\ j < k
        /\ Received[i].from = Received[k].from
        /\ Received[j].from # Received[i].from

\* C14: a bounded(n) channel never holds more than n values, and it holds
\* exactly the values sent and not yet received: a send on a full channel
\* has not returned and no value was dropped or overwritten.
C14_BoundedNeverExceeded ==
    /\ capacity.bounded => Len(sig[1].q) <= capacity.n
    /\ Received \o sig[1].q
          \in {r \in [1..Len(Sent) -> {Sent[k] : k \in 1..Len(Sent)}] :
                  \A v \in {Sent[k] : k \in 1..Len(Sent)} :
                      Cardinality({k \in 1..Len(Sent) : r[k] = v}) = 1}

\* A sender waits in send on a full channel that a try_recv emptied before.
C14_Witness ==
    /\ capacity.bounded
    /\ Len(sig[1].q) = capacity.n
    /\ Waiting(1) # {}
    /\ Received # <<>>

\* C13: while the signal receiver is the root of the running engine, its
\* channel holds no value when the engine waits in poll with no readiness
\* notification of the receiver queued and no send under way.
C13_NoValueLeftWithoutWakeUp ==
    (/\ root = ShapeReceiver
     /\ pc = "poll"
     /\ 2 \notin ready
     /\ feeder.pc = "idle")
        => chan[2] = <<>>

\* ------------------------------------------------------------------------
\* Work-stealing queue (src/src/sync/queue.rs): a producer thread pushes
\* 1..MaxPush; a consumer thread runs ReactiveDeque::new(deque).map(record)
\* under its own System
\* ------------------------------------------------------------------------
\* An engine whose root starts with the receiving end; `got` is what the
\* receiving end emitted as Value so far. Where the root ends with the
\* Counter of tests/test_broadcast.rs, `counter` is its field, `stop` says
\* that SystemEvent::Stop waits in the channel of the System, and `last`
\* that the control event comes next in the batch of events being handled.
\* Where it steals from a deque, `retry` counts the Steal::Retry answers
NewConsumer ==
    [pc |-> "new", got |-> <<>>, counter |-> 0, stop |-> FALSE, last |-> FALSE, retry |-> 0]

\* Most Steal::Retry answers one consumer is given
MaxRetry == 1

\* queue = ReactiveQueue::bounded(cap) or unbounded(); deque = queue.deque()
InitQueue ==
    /\ TokensAtInit
    /\ NoNet
    /\ NoGraph
    /\ capacity \in {Unbounded} \cup {Bounded(n) : n \in 0..MaxCap}
    /\ sig = <<NewSignal>>
    /\ thr = <<NewThread("producer")>>
    /\ con = <<NewConsumer>>
    /\ dq = <<>>
    /\ lock = <<>>
    /\ ops = <<>>

\* Queue::push, first line: self.worker.push(val)
Push ==
    /\ thr[1].pc = "idle"
    /\ thr[1].sent < MaxPush
    /\ dq' = Append(dq, thr[1].sent + 1)
    /\ thr' = [thr EXCEPT ![1].pc = "set"]
    /\ UNCHANGED <<netVars, tokenVars, graphVars, capacity, sig, con, lock, ops>>

\* Queue::push, p.send(()) to the publisher of the deque: set_readiness
PushSetReadiness ==
    /\ thr[1].kind = "producer"
    /\ ThreadSetReadiness(1)
    /\ UNCHANGED <<netVars, tokenVars, graphVars, capacity, con, dq, lock, ops>>

\* ... and sender.send(())
PushSend ==
    /\ thr[1].kind = "producer"
    /\ ThreadSend(1, Unit)
    /\ UNCHANGED <<netVars, tokenVars, graphVars, capacity, con, dq, lock, ops>>

\* The consumer thread makes its reactor (EventedReactor::new registers the
\* signal with the System of the thread) and calls System::start
ConsumerStart(i) ==
    /\ con[i].pc = "new"
    /\ con' = [con EXCEPT ![i].pc = "poll"]

\* System::start of a consumer: poll returns the event of its signal, and
\* with Stop in the channel of the System the control event after it
ConsumerPoll(i) ==
    /\ con[i].pc = "poll"
    /\ sig[i].ready
    /\ sig' = [sig EXCEPT ![i].ready = FALSE]
    /\ con' = [con EXCEPT ![i].pc = "recv", ![i].last = con[i].stop]

\* Dequeue::steal, first half, inside react(Event) or react(Continue):
\* self.signal.try_recv(), the result ignored
DequeTryRecv ==
    /\ con[1].pc = "recv"
    /\ \E o \in TryRecvOutcomes(1, <<Unit>>) :
        /\ sig' = o.sig
        /\ thr' = o.thr
    /\ con' = [con EXCEPT ![1].pc = "steal"]
    /\ UNCHANGED <<netVars, tokenVars, graphVars, capacity, dq, lock, ops>>

\* Dequeue::steal of consumer i, second half: self.stealer.steal(). On
\* Retry the loop of ReactiveDeque::steal calls Dequeue::steal again;
\* Success is a Value and start calls react(Continue) next; Empty is
\* Continue and start polls
StealOutcome(i) ==
    /\ con[i].pc = "steal"
    /\ \/ /\ con[i].retry < MaxRetry
          /\ dq' = dq
          /\ con' = [con EXCEPT ![i].pc = "recv", ![i].retry = @ + 1]
       \/ IF dq # <<>>
          THEN /\ dq' = Tail(dq)
               /\ con' = [con EXCEPT ![i].pc = "recv", ![i].got = Append(@, Head(dq))]
          ELSE /\ dq' = dq
               /\ con' = [con EXCEPT ![i].pc = "poll"]

DequeSteal ==
    /\ StealOutcome(1)
    /\ UNCHANGED <<netVars, tokenVars, graphVars, capacity, sig, thr, lock, ops>>

DequeStart ==
    /\ ConsumerStart(1)
    /\ UNCHANGED <<netVars, tokenVars, graphVars, capacity, sig, thr, dq, lock, ops>>

DequePoll ==
    /\ ConsumerPoll(1)
    /\ UNCHANGED <<netVars, tokenVars, graphVars, capacity, thr, dq, lock, ops>>

Producer == Push \/ PushSetReadiness \/ PushSend
Consumer == DequeStart \/ DequePoll \/ DequeTryRecv \/ DequeSteal

NextQueue ==
    \/ Push
    \/ PushSetReadiness
    \/ PushSend
    \/ DequeStart
    \/ DequePoll
    \/ DequeTryRecv
    \/ DequeSteal

SpecQueue == InitQueue /\ [][NextQueue]_vars

\* Both threads are scheduled
FairQueue == InitQueue /\ [][NextQueue]_vars /\ WF_vars(Producer) /\ WF_vars(Consumer)

\* ------------------------------------------------------------------------
\* Claims about the queue
\* ------------------------------------------------------------------------
\* C15: the values the consumer emitted are always the first of 1..MaxPush
\* in push order, and in the end all of them.
C15_ConsumerGetsAllInOrder ==
    /\ [](\A k \in 1..Len(con[1].got) : con[1].got[k] = k)
    /\ <>(con[1].got = [k \in 1..MaxPush |-> k])

\* C16: with a queue of capacity n, at most n values are in the queue
\* (pushed and not yet taken by the consumer) at any time.
C16_AtMostCapacityHeld ==
    capacity.bounded => Len(dq) <= capacity.n

\* ------------------------------------------------------------------------
\* Broadcast (src/src/sync/broadcast.rs): publisher threads publish through
\* clones of one Broadcast; every subscriber thread runs
\* ReactiveSignalReceiver::new(s).map(..).chain(counter) under its own
\* System, the counter stopping it at its fourth call
\* ------------------------------------------------------------------------
\* Counter::react: `if self.counter == 4`
StopCount == 4

\* Counter::react on any reaction: self.counter += 1, and Stop is sent to
\* the System of the thread when the counter is at StopCount (the sender
\* and the channel are those of the subscriber's own thread). The chain
\* ends its loop on what the counter returns for Continue.
CounterReact(c) ==
    [c EXCEPT !.counter = @ + 1,
              !.stop = @ \/ c.counter + 1 = StopCount]

\* The channel once its SignalReceiver is dropped: what it held is gone and
\* so is the registration
DroppedSignal == [q |-> <<>>, ready |-> FALSE, dropped |-> TRUE]

\* root.react returned something that is no Value: start goes to the next
\* event of the batch, the control event if `last`, or polls again
AfterReact(c) ==
    [c EXCEPT !.pc = IF c.last THEN "control" ELSE "poll", !.last = FALSE]

\* A Broadcast of some capacity after some subscriber() calls, with p
\* threads that hold a clone of it
BroadcastWith(p) ==
    /\ TokensAtInit
    /\ NoNet
    /\ NoGraph
    /\ capacity \in {Unbounded} \cup {Bounded(n) : n \in 0..MaxCap}
    /\ \E n \in 0..MaxSubs :
        /\ sig = [i \in 1..n |-> NewSignal]
        /\ con = [i \in 1..n |-> NewConsumer]
    /\ thr = [t \in 1..p |-> NewThread("publisher")]
    /\ dq = <<>>
    /\ lock = [readers |-> {}]
    /\ ops = <<>>

\* One thread publishes
InitPublish == BroadcastWith(1)

\* The publisher threads of the tests publish through clones
InitBroadcast == BroadcastWith(MaxSenders)

\* Broadcast::subscriber: a new signal, its sender pushed to the list under
\* the write lock, which waits for the readers to leave
Subscribe ==
    /\ Len(sig) < MaxSubs
    /\ lock.readers = {}
    /\ sig' = Append(sig, NewSignal)
    /\ con' = Append(con, NewConsumer)
    /\ UNCHANGED <<netVars, tokenVars, graphVars, capacity, thr, dq, lock, ops>>

\* Broadcast::publish: self.subscribers.read(), held to the end of publish
PublishLock ==
    \E t \in DOMAIN thr :
        /\ thr[t].kind = "publisher"
        /\ thr[t].pc = "idle"
        /\ thr[t].sent < MaxSends
        /\ lock' = [lock EXCEPT !.readers = @ \cup {t}]
        /\ thr' = [thr EXCEPT ![t].pc = IF sig = <<>> THEN "unlock" ELSE "set",
                              ![t].to = 1,
                              ![t].n = Len(sig)]
        /\ UNCHANGED <<netVars, tokenVars, graphVars, capacity, sig, con, dq, ops>>

\* sub.send(val_c) for the subscriber the loop is at: set_readiness
PublishSetReadiness ==
    \E t \in DOMAIN thr :
        /\ thr[t].kind = "publisher"
        /\ ThreadSetReadiness(t)
        /\ UNCHANGED <<netVars, tokenVars, graphVars, capacity, con, dq, lock, ops>>

\* ... and sender.send, its result dropped by `let _ =`
PublishSend ==
    \E t \in DOMAIN thr :
        /\ thr[t].kind = "publisher"
        /\ ThreadSend(t, NextVal(t))
        /\ UNCHANGED <<netVars, tokenVars, graphVars, capacity, con, dq, lock, ops>>

\* publish returns: the read guard is dropped
PublishUnlock ==
    \E t \in DOMAIN thr :
        /\ thr[t].kind = "publisher"
        /\ thr[t].pc = "unlock"
        /\ lock' = [lock EXCEPT !.readers = @ \ {t}]
        /\ thr' = [thr EXCEPT ![t].pc = "idle",
                              ![t].sent = @ + 1,
                              ![t].seen = Append(@, thr[t].n)]
        /\ UNCHANGED <<netVars, tokenVars, graphVars, capacity, sig, con, dq, ops>>

\* A SignalReceiver got from subscriber() is dropped before it is used
DropReceiver ==
    \E i \in DOMAIN con :
        /\ con[i].pc = "new"
        /\ con' = [con EXCEPT ![i].pc = "dropped"]
        /\ sig' = [sig EXCEPT ![i] = DroppedSignal]
        /\ UNCHANGED <<netVars, tokenVars, graphVars, capacity, thr, dq, lock, ops>>

\* A subscriber thread makes its reactor and calls System::start
SubStart ==
    \E i \in DOMAIN con :
        /\ ConsumerStart(i)
        /\ UNCHANGED <<netVars, tokenVars, graphVars, capacity, sig, thr, dq, lock, ops>>

\* Its poll returns the event of the signal
SubPoll ==
    \E i \in DOMAIN con :
        /\ ConsumerPoll(i)
        /\ UNCHANGED <<netVars, tokenVars, graphVars, capacity, thr, dq, lock, ops>>

\* The control event, which poll returned first or which the loop of start
\* comes to after root.react has returned for the event of the signal:
\* try_recv on the channel of the System gives Stop, start breaks out of
\* its loop and returns, and the reactor it was given by value is dropped,
\* the SignalReceiver with it. Until this step the channel of the
\* subscriber takes what the publishers send. What start does between the
\* control event and the drop touches only the System of its own thread,
\* so a send that lands in between is a send that lands before this step:
\* it succeeds and its value goes with the channel
SubStop ==
    \E i \in DOMAIN con :
        /\ \/ con[i].pc = "poll" /\ con[i].stop
           \/ con[i].pc = "control"
        /\ con' = [con EXCEPT ![i].pc = "returned"]
        /\ sig' = [sig EXCEPT ![i] = DroppedSignal]
        /\ UNCHANGED <<netVars, tokenVars, graphVars, capacity, thr, dq, lock, ops>>

\* One pass of the loop of Chain::react by subscriber i: the one try_recv
\* of ReactiveSignalReceiver::react, and self.to.react with what the
\* receiver returned, which is the call of the counter. The counter works
\* on its own field and on the channel of its own System, which no other
\* thread reads or writes, so the one step the other threads can see is
\* the try_recv. After a value the loop asks the receiver again with
\* Continue; otherwise the loop ends and root.react returns to start
SubTryRecv(i) ==
    \E o \in TryRecvOutcomes(i, [t \in DOMAIN thr |-> NextVal(t)]) :
        /\ thr' = o.thr
        /\ sig' = o.sig
        /\ con' = IF o.res = "Ok"
                  THEN [con EXCEPT ![i] = [CounterReact(@) EXCEPT
                                              !.pc = "more", !.got = Append(@, o.val)]]
                  ELSE [con EXCEPT ![i] = AfterReact(CounterReact(@))]

\* root.react(Event): the first pass, self.from.react(Event)
SubReact ==
    \E i \in DOMAIN con :
        /\ con[i].pc = "recv"
        /\ SubTryRecv(i)
        /\ UNCHANGED <<netVars, tokenVars, graphVars, capacity, dq, lock, ops>>

\* The passes after a value: self.from.react(Continue)
SubContinue ==
    \E i \in DOMAIN con :
        /\ con[i].pc = "more"
        /\ SubTryRecv(i)
        /\ UNCHANGED <<netVars, tokenVars, graphVars, capacity, dq, lock, ops>>

NextBroadcast ==
    \/ Subscribe
    \/ PublishLock
    \/ PublishSetReadiness
    \/ PublishSend
    \/ PublishUnlock
    \/ DropReceiver
    \/ SubStart
    \/ SubPoll
    \/ SubStop
    \/ SubReact
    \/ SubContinue

SpecPublish == InitPublish /\ [][NextBroadcast]_vars

SpecBroadcast == InitBroadcast /\ [][NextBroadcast]_vars

\* A step of publisher t, of the engine of subscriber i
PublisherStep(t) ==
    /\ PublishLock \/ PublishSetReadiness \/ PublishSend \/ PublishUnlock
    /\ thr'[t] # thr[t]
SubscriberStep(i) ==
    /\ SubStart \/ SubPoll \/ SubStop \/ SubReact \/ SubContinue
    /\ con'[i] # con[i]

\* Every publisher thread and every subscriber thread is scheduled
FairBroadcast ==
    /\ InitBroadcast
    /\ [][NextBroadcast]_vars
    /\ \A t \in 1..MaxSenders : WF_vars(PublisherStep(t))
    /\ \A i \in 1..MaxSubs : WF_vars(i \in DOMAIN con /\ SubscriberStep(i))

\* ------------------------------------------------------------------------
\* Claims about the broadcaster
\* ------------------------------------------------------------------------
\* Number of copies of v that reached subscriber i: received or queued
Copies(i, v) ==
    LET all == con[i].got \o sig[i].q
    IN  Cardinality({k \in 1..Len(all) : all[k] = v})

\* C17: once publish(v) returned, every subscriber that was in the list and
\* whose receiver is not dropped got exactly one copy of v, whether or not
\* the send to another subscriber failed; no subscriber ever has two copies.
C17_OneCopyPerSubscriber ==
    \A t \in DOMAIN thr :
        /\ \A k \in 1..thr[t].sent : \A i \in 1..thr[t].seen[k] :
              ~sig[i].dropped => Copies(i, [from |-> t, n |-> k]) = 1
        /\ \A k \in 1..MaxSends : \A i \in DOMAIN sig :
              Copies(i, [from |-> t, n |-> k]) <= 1

\* A publish to two subscribers returned after the receiver of the first
\* one was dropped, and the second one has its copy.
C17_Witness ==
    \E t \in DOMAIN thr :
        /\ thr[t].sent >= 1
        /\ thr[t].seen[1] = MaxSubs
        /\ sig[1].dropped
        /\ Copies(2, [from |-> t, n |-> 1]) = 1

\* Subscriber i received every published item and its engine returned
Stopped(i) ==
    /\ con[i].pc = "returned"
    /\ \A t \in DOMAIN thr : \A k \in 1..MaxSends :
          Cardinality({j \in 1..Len(con[i].got) : con[i].got[j] = [from |-> t, n |-> k]}) = 1

\* C18: with all subscribers subscribed before the first publish and no
\* receiver dropped, every subscriber receives the items of each publisher
\* in that publisher's order, and in the end has received every item once
\* and its engine has returned.
C18_AllReceiveAllAndStop ==
    (Len(sig) = MaxSubs) =>
        /\ [](\A i \in DOMAIN con : \A t \in DOMAIN thr :
                LET mine == SelectSeq(con[i].got, LAMBDA v : v.from = t)
                IN  \A k \in 1..Len(mine) : mine[k].n = k)
        /\ <>(\/ \E i \in DOMAIN con : con[i].pc = "dropped"
              \/ \A i \in DOMAIN con : Stopped(i))

\* C19: no publisher holds the lock of the subscriber list while it waits
\* in a send for a place in a subscriber's channel.
C19_LockNotHeldWhileWaiting ==
    \A t \in DOMAIN thr :
        (/\ thr[t].pc = "send"
         /\ ~sig[thr[t].to].dropped
         /\ ~HasRoom(sig[thr[t].to], capacity))
            => t \notin lock.readers

\* ------------------------------------------------------------------------
\* PreVec on its own: any capacity and offset, inserts, removes and growth
\* ------------------------------------------------------------------------
\* PreVec::with_capacity_and_offset
PreVecWithCapacityAndOffset(cap, offset) ==
    [PreVecWithCapacity(cap) EXCEPT !.offset = offset]

\* The record of one call on the vector: its number, the operation, the
\* index given or returned, the outcome and the vector before and after
VecCall(op, index, res, val, after, wraps) ==
    [n |-> IF hist = <<>> THEN 1 ELSE hist[Len(hist)].n + 1,
     op |-> op, index |-> index, res |-> res, val |-> val,
     before |-> reactors, after |-> after, wraps |-> wraps]

\* The last call and the one before it
LastTwo(h) == IF Len(h) > 2 THEN SubSeq(h, Len(h) - 1, Len(h)) ELSE h

\* Number of calls made, and whether one of them panicked
VecCalls == IF hist = <<>> THEN 0 ELSE hist[Len(hist)].n
VecAlive == IF hist = <<>> THEN TRUE ELSE hist[Len(hist)].res # "panic"

\* An earlier call of this run wrapped: the build has no overflow checks
Wrapped == IF hist = <<>> THEN FALSE ELSE hist[Len(hist)].wraps

\* The outcomes O of a call are those of the two builds; r is one the
\* build of this run can give
OfThisBuild(O, r) == (Cardinality(O) > 1 /\ r.res = "panic") => ~Wrapped

\* Whether the run has wrapped once r of O is the outcome
WrapsWith(O, r) == Wrapped \/ (Cardinality(O) > 1 /\ r.res # "panic")

InitVec ==
    /\ \E cap \in 0..SystemCapacity, offset \in 0..MaxOffset \cup {UsizeMax} :
          reactors = PreVecWithCapacityAndOffset(cap, offset)
    /\ upper = <<>>
    /\ handles = <<>>
    /\ held = <<>>
    /\ hist = <<>>
    /\ NoGraph
    /\ NoSync
    /\ NoNet

\* v.insert(n), n the number of the call
VecInsert ==
    /\ VecAlive
    /\ VecCalls < MaxOps
    /\ \E r \in InsertOutcomes(reactors, VecCalls + 1) :
           /\ OfThisBuild(InsertOutcomes(reactors, VecCalls + 1), r)
           /\ reactors' = r.pv
           /\ hist' = LastTwo(Append(hist, VecCall("insert", r.index, r.res, VecCalls + 1, r.pv,
                                      WrapsWith(InsertOutcomes(reactors, VecCalls + 1), r))))
    /\ UNCHANGED <<upper, netVars, handles, held, graphVars, syncVars>>

\* v.remove(index) for any index
VecRemove ==
    /\ VecAlive
    /\ VecCalls < MaxOps
    /\ \E index \in 0..UsizeMax :
         \E r \in RemoveOutcomes(reactors, index) :
            /\ OfThisBuild(RemoveOutcomes(reactors, index), r)
            /\ reactors' = r.pv
            /\ hist' = LastTwo(Append(hist, VecCall("remove", index, r.res, r.val, r.pv,
                                       WrapsWith(RemoveOutcomes(reactors, index), r))))
    /\ UNCHANGED <<upper, netVars, handles, held, graphVars, syncVars>>

\* v.get_mut(index).map(|slot| *slot = 0) for any index: 0 is a value that
\* no insert stores. A call that finds nothing changes nothing and is not
\* recorded
VecGetMut ==
    /\ VecAlive
    /\ VecCalls < MaxOps
    /\ \E index \in 0..UsizeMax :
         \E r \in GetMutOutcomes(reactors, index, 0) :
            /\ OfThisBuild(GetMutOutcomes(reactors, index, 0), r)
            /\ reactors' = r.pv
            /\ hist' = IF r.res = "none" /\ WrapsWith(GetMutOutcomes(reactors, index, 0), r) = Wrapped
                       THEN hist
                       ELSE LastTwo(Append(hist, VecCall("get_mut", index, r.res, r.val, r.pv,
                                               WrapsWith(GetMutOutcomes(reactors, index, 0), r))))
    /\ UNCHANGED <<upper, netVars, handles, held, graphVars, syncVars>>

\* v[index] = 0 for any index
VecIndexMut ==
    /\ VecAlive
    /\ VecCalls < MaxOps
    /\ \E index \in 0..UsizeMax :
         \E r \in IndexMutOutcomes(reactors, index, 0) :
            /\ OfThisBuild(IndexMutOutcomes(reactors, index, 0), r)
            /\ reactors' = r.pv
            /\ hist' = LastTwo(Append(hist, VecCall("index_mut", index, r.res, r.val, r.pv,
                                       WrapsWith(IndexMutOutcomes(reactors, index, 0), r))))
    /\ UNCHANGED <<upper, netVars, handles, held, graphVars, syncVars>>

\* v.set_offset(new_offset)
VecSetOffset ==
    /\ VecAlive
    /\ VecCalls < MaxOps
    /\ \E new_offset \in 0..MaxOffset \cup {UsizeMax} :
         /\ new_offset # reactors.offset
         /\ reactors' = PreVecSetOffset(reactors, new_offset)
         /\ hist' = LastTwo(Append(hist, VecCall("set_offset", new_offset, "ok", 0,
                                    PreVecSetOffset(reactors, new_offset), Wrapped)))
    /\ UNCHANGED <<upper, netVars, handles, held, graphVars, syncVars>>

\* v.prevent_growth() and v.enable_growth()
VecSetGrowth ==
    /\ VecAlive
    /\ \E b \in BOOLEAN :
        /\ b # reactors.can_grow
        /\ reactors' = [reactors EXCEPT !.can_grow = b]
    /\ UNCHANGED <<upper, netVars, handles, held, hist, graphVars, syncVars>>

\* v.clear()
VecClear ==
    /\ VecAlive
    /\ VecCalls < MaxOps
    /\ reactors' = PreVecClear(reactors)
    /\ hist' = LastTwo(Append(hist, VecCall("clear", 0, "ok", 0, PreVecClear(reactors), Wrapped)))
    /\ UNCHANGED <<upper, netVars, handles, held, graphVars, syncVars>>

NextVec ==
    \/ VecInsert \/ VecRemove \/ VecGetMut \/ VecIndexMut
    \/ VecSetGrowth \/ VecSetOffset \/ VecClear

SpecVec == InitVec /\ [][NextVec]_vars

\* ------------------------------------------------------------------------
\* Two PreVecs sharing one index space (prevec.rs 18-30): `reactors` is the
\* lower one, `upper` the other; both are told not to grow
\* ------------------------------------------------------------------------
\* The indices [offset, offset + capacity) of a vector
RangeOf(p) == p.offset..(p.offset + p.capacity - 1)

\* with_capacity_and_offset(cap, offset) followed by prevent_growth()
Prevented(cap, offset) ==
    [PreVecWithCapacityAndOffset(cap, offset) EXCEPT !.can_grow = FALSE]

\* An insert that returned an index, noted once: which vector, the index
\* and the range of the vector at that moment
Issue(which, p, index) == [vec |-> which, index |-> index, range |-> RangeOf(p)]

Noted(h, rec) == IF \E k \in 1..Len(h) : h[k] = rec THEN h ELSE Append(h, rec)

InitPair ==
    /\ \E capA, capB \in 0..SystemCapacity, a \in 0..MaxOffset, b \in 0..UsizeMax :
         /\ a + capA - 1 <= UsizeMax
         /\ b + capB - 1 <= UsizeMax
         /\ reactors = Prevented(capA, a)
         /\ upper = Prevented(capB, b)
         /\ RangeOf(reactors) \cap RangeOf(upper) = {}
    /\ handles = <<>>
    /\ held = <<>>
    /\ hist = <<>>
    /\ NoGraph
    /\ NoSync
    /\ NoNet

\* lower.insert(())
LowerInsert ==
    /\ \E r \in InsertOutcomes(reactors, Unit) :
         /\ r.res # "panic"
         /\ reactors' = r.pv
         /\ hist' = IF r.res = "ok" THEN Noted(hist, Issue("lower", reactors, r.index)) ELSE hist
    /\ UNCHANGED <<upper, netVars, handles, held, graphVars, syncVars>>

\* upper.insert(())
UpperInsert ==
    /\ \E r \in InsertOutcomes(upper, Unit) :
         /\ r.res # "panic"
         /\ upper' = r.pv
         /\ hist' = IF r.res = "ok" THEN Noted(hist, Issue("upper", upper, r.index)) ELSE hist
    /\ UNCHANGED <<reactors, netVars, handles, held, graphVars, syncVars>>

\* lower.remove(index) of an index that holds a value (the ranges of both
\* vectors end at or below usize::MAX, so no index wraps)
LowerRemove ==
    /\ \E index \in OccupiedIndices(reactors, FALSE) :
         reactors' = PreVecRemove(reactors, index).pv
    /\ UNCHANGED <<upper, hist, netVars, handles, held, graphVars, syncVars>>

\* upper.remove(index) of an index that holds a value
UpperRemove ==
    /\ \E index \in OccupiedIndices(upper, FALSE) :
         upper' = PreVecRemove(upper, index).pv
    /\ UNCHANGED <<reactors, hist, netVars, handles, held, graphVars, syncVars>>

NextPair == LowerInsert \/ UpperInsert \/ LowerRemove \/ UpperRemove

SpecPair == InitPair /\ [][NextPair]_vars

\* ------------------------------------------------------------------------
\* Claims about PreVec
\* ------------------------------------------------------------------------
\* C29: remove(i) of an occupied index i returns Some(v), v the value
\* stored at i (the value last written there by insert, get_mut or
\* v[i] = x), and an insert that comes right after it returns i. The
\* occupied indices are those of the build of the run: an index below the
\* offset (a slot whose slot + offset passed usize::MAX) is one in the
\* build without overflow checks only; the other build has no index for
\* that slot, its remove panics in index - self.offset.
C29_RemoveThenInsertReuses ==
    \A k \in 1..Len(hist) :
        /\ (/\ hist[k].op = "remove"
            /\ hist[k].index \in OccupiedIndices(hist[k].before, hist[k].wraps))
              => /\ hist[k].res = "some"
                 /\ hist[k].val = hist[k].before.inner[
                        ((hist[k].index - hist[k].before.offset) % (UsizeMax + 1)) + 1].val
        /\ (/\ k > 1
            /\ hist[k - 1].op = "remove" /\ hist[k - 1].res = "some"
            /\ hist[k].op = "insert")
              => hist[k].res = "ok" /\ hist[k].index = hist[k - 1].index

\* On a vector with an offset that has grown and has a lower free index, an
\* index was removed and the insert after it returned that index.
C29_Witness ==
    /\ Len(hist) = 2
    /\ hist[1].op = "remove" /\ hist[1].res = "some"
    /\ hist[2].op = "insert" /\ hist[2].index = hist[1].index
    /\ reactors.offset > 0
    /\ hist[1].before.capacity > SystemCapacity
    /\ \E j \in hist[1].before.offset..(hist[1].index - 1) : j \notin OccupiedIndices(hist[1].before, hist[1].wraps)

\* C31: after prevent_growth(), an insert into a vector that holds
\* `capacity` values fails with NoCapacity and leaves the vector as it was;
\* an insert that follows the removal of a value succeeds.
C31_NoCapacityWhenFull ==
    \A k \in 1..Len(hist) :
        /\ (/\ hist[k].op = "insert"
            /\ ~hist[k].before.can_grow
            /\ hist[k].before.length = hist[k].before.capacity)
              => /\ hist[k].res = "NoCapacity"
                 /\ hist[k].after = hist[k].before
        /\ (/\ k > 1
            /\ hist[k - 1].op = "remove" /\ hist[k - 1].res = "some"
            /\ hist[k].op = "insert"
            /\ ~hist[k].before.can_grow)
              => /\ hist[k].res = "ok"
                 /\ hist[k].after.length = hist[k].before.length + 1

\* A vector that may not grow was filled by an insert and refused the next
C31_Witness ==
    /\ Len(hist) = 2
    /\ hist[1].op = "insert" /\ hist[1].res = "ok"
    /\ hist[2].op = "insert" /\ hist[2].res = "NoCapacity"
    /\ hist[2].before.length = hist[2].before.capacity
    /\ hist[2].before.capacity > 0
    /\ hist[2].before.offset > 0

\* C32: with growth allowed, an insert into a vector that holds `capacity`
\* values succeeds, doubles the capacity, returns the lowest index never
\* used, and leaves every value at its index.
C32_GrowthKeepsIndices ==
    \A k \in 1..Len(hist) :
        (/\ hist[k].op = "insert"
         /\ hist[k].before.can_grow
         /\ hist[k].before.length = hist[k].before.capacity)
           => /\ hist[k].res = "ok"
              /\ hist[k].after.capacity = 2 * hist[k].before.capacity
              /\ hist[k].index = hist[k].before.offset + hist[k].before.capacity
              /\ \A i \in OccupiedIndices(hist[k].before, hist[k].wraps) :
                    /\ i \in OccupiedIndices(hist[k].after, hist[k].wraps)
                    /\ hist[k].after.inner[((i - hist[k].after.offset) % (UsizeMax + 1)) + 1]
                         = hist[k].before.inner[((i - hist[k].before.offset) % (UsizeMax + 1)) + 1]

\* C33: two vectors with disjoint ranges [a, a + cap_a) and [b, b + cap_b),
\* both told not to grow, never return the same index from insert, and
\* every index a vector returns lies in its range.
C33_DisjointIndices ==
    /\ \A j, k \in 1..Len(hist) :
          hist[j].vec # hist[k].vec => hist[j].index # hist[k].index
    /\ \A k \in 1..Len(hist) : hist[k].index \in hist[k].range

\* The ranges touch, every index of both was returned, the lower vector is
\* full and the upper one had its first value removed
C33_Witness ==
    /\ reactors.length = reactors.capacity /\ reactors.capacity > 1
    /\ upper.length = upper.capacity - 1 /\ upper.capacity > 1
    /\ upper.next = 0
    /\ upper.offset = reactors.offset + reactors.capacity
    /\ Len(hist) = reactors.capacity + upper.capacity

\* C34: with the offset usize::MAX (and a capacity of at least one), the
\* insert into the first slot returns usize::MAX and an insert into any
\* later slot returns an error: it neither panics nor returns an index.
C34_MaxOffset ==
    \A k \in 1..Len(hist) :
        (/\ hist[k].op = "insert"
         /\ hist[k].before.offset = UsizeMax
         /\ hist[k].before.capacity >= 1)
           => IF hist[k].before.next = 0
              THEN hist[k].res = "ok" /\ hist[k].index = UsizeMax
              ELSE hist[k].res = "NoCapacity"

\* The values get answers with, for the indices from the offset up: the
\* vector read as a partial map
MapOf(p) == [i \in p.offset..UsizeMax |-> GetOutcomes(p, i)]

Absent == {[res |-> "none", val |-> 0]}
Present(v) == {[res |-> "some", val |-> v]}

\* C39: the vector is a partial map from indices to values: an insert adds
\* its value at the index it returns and changes no other index, a remove
\* takes its index out, clear empties the map, a refused insert changes
\* nothing; len() is the number of indices get answers for; in_range is
\* true of every index insert returns.
C39_PartialMap ==
    \A k \in 1..Len(hist) :
        LET c == hist[k]
            m == MapOf(c.before)
            n == MapOf(c.after)
        IN  /\ (c.op = "insert" /\ c.res = "ok") =>
                 /\ c.index \in DOMAIN m
                 /\ m[c.index] = Absent
                 /\ n = [m EXCEPT ![c.index] = Present(c.val)]
                 /\ PreVecInRange(c.after, c.index)
            /\ (c.op = "insert" /\ c.res = "NoCapacity") => n = m
            /\ (c.op = "remove" /\ c.res # "panic" /\ c.index \in DOMAIN m) =>
                 /\ n = [m EXCEPT ![c.index] = Absent]
                 /\ m[c.index] = IF c.res = "some" THEN Present(c.val) ELSE Absent
            /\ c.op = "clear" => \A i \in DOMAIN n : n[i] = Absent
            /\ c.res # "panic" =>
                 PreVecLen(c.after) = Cardinality({i \in DOMAIN n : n[i] # Absent})

\* The positions reached from `pos` by following the pointers of Empty
\* entries, `pos` first, up to `fuel` of them; the walk stops at an occupied
\* slot and at a position beyond the backing vector, which it includes
RECURSIVE FreeWalk(_, _, _)
FreeWalk(p, pos, fuel) ==
    IF fuel = 0 THEN <<>>
    ELSE IF pos >= Len(p.inner) THEN <<pos>>
    ELSE IF p.inner[pos + 1].occ THEN <<pos>>
    ELSE <<pos>> \o FreeWalk(p, p.inner[pos + 1].nxt, fuel - 1)

\* The free list of the vector is whole: the walk from `next` ends at the
\* length of the backing vector after every free slot, each once
FreeListWhole(p) ==
    LET w == FreeWalk(p, p.next, Len(p.inner) + 2)
        free == {k \in 0..(Len(p.inner) - 1) : ~p.inner[k + 1].occ}
    IN  /\ w[Len(w)] = Len(p.inner)
        /\ Len(w) = Cardinality(free) + 1
        /\ {w[k] : k \in 1..(Len(w) - 1)} = free

\* An insert that panicked inside the vector: index out of bounds or
\* 'attempted to insert into occupied slot'
PanickedInside(c) ==
    c.op = "insert" /\ c.res = "panic" /\ PreVecInsert(c.before, c.val).res = "panic"

\* C40: in every state, following `next` and the pointers in Empty entries
\* visits every free materialised slot once, no occupied slot, and ends at
\* the length of the backing vector; and no insert panics on an occupied
\* slot or on an index outside the backing vector.
C40_FreeListIntegrity ==
    /\ FreeListWhole(reactors)
    /\ \A k \in 1..Len(hist) : ~PanickedInside(hist[k])

\* C30: remove of an index in [offset, offset + capacity) whose slot is
\* free returns None and leaves the vector as it was.
C30_RemoveFreeIsNoOp ==
    \A k \in 1..Len(hist) :
        (/\ hist[k].op = "remove"
         /\ hist[k].index \in RangeOf(hist[k].before)
         /\ hist[k].index \notin OccupiedIndices(hist[k].before, hist[k].wraps))
            => hist[k].res = "none" /\ hist[k].after = hist[k].before

\* ------------------------------------------------------------------------
\* Mono (src/src/reactor/producers.rs): called directly, and as the root of
\* a running System
\* ------------------------------------------------------------------------
\* The record of Mono::new(v) at the head of the calls of a Mono
MonoNew(v) == [in |-> Value(v), out |-> Continue, idx |-> 0]

\* Mono::new(v).map(|_| handle.send(SystemEvent::Stop))
ShapeMono(v) == MapNode("mono_map", MonoNode("mono", 1, v), Closure("stop", 0))

\* Either a Mono on which react is called directly, or System::start on a
\* Mono whose value a closure answers with Stop
InitMono ==
    /\ TokensAtInit
    /\ NoNet
    /\ chan = Channels(<<>>)
    /\ log = <<>>
    /\ lastIn = Continue
    /\ lastOut = Continue
    /\ events = <<>>
    /\ idx = 0
    /\ stopper = "idle"
    /\ feeder = [sent |-> 0, pc |-> "idle"]
    /\ NoSync
    /\ \E v \in GenValues :
        \/ /\ root = MonoNode("mono", 1, v)
           /\ calls = <<MonoNew(v)>>
           /\ pc = "idle"
           /\ ready = StartTokens(root)
        \/ /\ root = ShapeMono(v)
           /\ calls = <<>>
           /\ pc = "poll"
           /\ ready = StartTokens(root)

\* mono.react(r) for an event of its token or of another one, Continue or
\* Value(())
MonoCall ==
    /\ pc = "idle"
    /\ Len(calls) <= MaxOps
    /\ \E r \in {Event(Ev(1)), Event(Ev(2)), Continue, Value(Unit)} :
       \E res \in {React(root, r, World(<<>>, chan, ready))} :
        /\ root' = res.node
        /\ lastIn' = r
        /\ lastOut' = res.out
        /\ calls' = Append(calls, [in |-> r, out |-> res.out, idx |-> Len(calls)])
        /\ UNCHANGED <<netVars, tokenVars, syncVars, chan, ready, log, pc, events, idx, stopper, feeder>>

NextMono ==
    \/ MonoCall
    \/ Poll
    \/ HandleSystemEvent
    \/ DeliverEvent
    \/ DrainContinue

SpecMono == InitMono /\ [][NextMono]_vars

\* The thread of the System runs
FairMono == InitMono /\ [][NextMono]_vars /\ WF_vars(Engine)

\* ------------------------------------------------------------------------
\* Claims about Mono
\* ------------------------------------------------------------------------
\* Calls of react that returned a value
ValueCalls == {k \in 2..Len(calls) : calls[k].out.tag = "Value"}

\* Calls of react with an event of the Mono's token
OwnEventCalls == {k \in 2..Len(calls) : calls[k].in = Event(Ev(root.token))}

\* Mono called directly: at most one call returned a value; it is the first
\* call with an event of the token, and the value is the constructor's
MonoValueOnce ==
    pc = "idle" =>
        /\ Cardinality(ValueCalls) <= 1
        /\ \A k \in ValueCalls :
              /\ k \in OwnEventCalls
              /\ \A j \in OwnEventCalls : j >= k
              /\ calls[k].out = calls[1].in
        /\ \A k \in OwnEventCalls :
              (\A j \in OwnEventCalls : j >= k) => k \in ValueCalls

\* Mono under start: the closure sent one Stop if the Mono gave its value
\* and none before, and start returns only after that one Stop
MonoStopsOnce ==
    pc # "idle" =>
        LET given == IF root.source.inner = Continue THEN 1 ELSE 0
            taken == IF pc = "returned" THEN 1 ELSE 0
        IN  /\ Len(chan[SYSTEM_TOKEN]) + taken = given
            /\ pc = "returned" => given = 1 /\ chan[SYSTEM_TOKEN] = <<>>

\* C28: a Mono returns a value at most once, to the first event of its own
\* token, and it is the value given to new; under start with a closure
\* that sends Stop the closure runs once and start returns.
C28_MonoGivesOneValue ==
    /\ [](MonoValueOnce /\ MonoStopsOnce)
    /\ ((pc = "poll") => <>(pc = "returned"))

\* A Mono gave its value to the first event of its token after other
\* calls, and a later event of its token was answered without a value.
C28_Witness ==
    /\ pc = "idle"
    /\ \E k \in ValueCalls : k > 2 /\ \E j \in OwnEventCalls : j > k

\* ------------------------------------------------------------------------
\* Listeners under System::start (src/src/net/tcp.rs, src/src/net/uds.rs)
\* ------------------------------------------------------------------------
\* first_listener.and(second_listener)
ShapeListeners == AndNode("server", TcpNode("first", 1), TcpNode("second", 2))

RECURSIVE ListenerTokens(_)
\* Tokens of the listeners of a graph
ListenerTokens(n) ==
    CASE n.kind \in {"Tcp", "Uds"} -> {n.token}
      [] n.kind \in {"And", "Or"} -> ListenerTokens(n.first) \cup ListenerTokens(n.second)
      [] n.kind = "Chain" -> ListenerTokens(n.from) \cup ListenerTokens(n.to)
      [] n.kind = "Map" -> ListenerTokens(n.source)
      [] OTHER -> {}

\* System::start on a listener, or on two listeners joined with and; no
\* client has connected yet
InitListen ==
    /\ TokensAtInit
    /\ NoNet
    /\ root \in {TcpNode("listener", 1), UdsNode("listener", 1), ShapeListeners}
    /\ chan = [t \in {SYSTEM_TOKEN, 1, 2} |-> <<>>]
    /\ ready = {}
    /\ log = <<>>
    /\ lastIn = Continue
    /\ lastOut = Continue
    /\ pc = "poll"
    /\ events = <<>>
    /\ idx = 0
    /\ calls = <<>>
    /\ stopper = "idle"
    /\ feeder = [sent |-> 0, pc |-> "idle"]
    /\ NoSync

\* A client connects to a listener, or a connection that accept will
\* answer with an error gets into the queue. The selector queues the event
\* of the listener when its queue was empty, and may or may not queue one
\* when connections were waiting already
Connect ==
    /\ feeder.sent < MaxConns
    /\ \E t \in ListenerTokens(root), c \in {feeder.sent + 1, AcceptError} :
        /\ chan' = [chan EXCEPT ![t] = Append(@, c)]
        /\ \/ ready' = ready \cup {t}
           \/ chan[t] # <<>> /\ ready' = ready
    /\ feeder' = [feeder EXCEPT !.sent = @ + 1]
    /\ UNCHANGED <<netVars, tokenVars, syncVars, root, log, lastIn, lastOut, pc, events, idx, calls, stopper>>

\* reactor.react(r) made by start, with the accept queues before and after
\* the call and the reregistrations it made; the process may have no
\* descriptor left while the call runs
ListenReact(r) ==
    \E nofile \in BOOLEAN :
    \E res \in {React(root, r, [World(<<>>, chan, ready) EXCEPT !.nofile = nofile])} :
        /\ root' = res.node
        /\ chan' = res.w.chan
        /\ ready' = res.w.ready
        /\ log' = res.w.log
        /\ lastIn' = r
        /\ lastOut' = res.out
        /\ calls' = Append(calls, [in |-> r, out |-> res.out, idx |-> idx,
                                   q |-> chan, after |-> res.w.chan, rr |-> res.w.rereg,
                                   nofile |-> nofile])
        /\ IF res.out.tag = "Value"
           THEN pc' = "drain" /\ idx' = idx
           ELSE Advance
        /\ UNCHANGED <<netVars, tokenVars, syncVars, events, stopper, feeder>>

\* reactor.react(Reaction::Event(event))
ListenEvent ==
    /\ pc = "loop"
    /\ ~IsSystemEvent(events[idx])
    /\ ListenReact(Event(events[idx]))

\* while let Reaction::Value(_) = reactor.react(Reaction::Continue) { }
ListenContinue ==
    /\ pc = "drain"
    /\ ListenReact(Continue)

NextListen == Poll \/ ListenEvent \/ ListenContinue \/ Connect

SpecListen == InitListen /\ [][NextListen]_vars

\* ------------------------------------------------------------------------
\* Claims about the listeners
\* ------------------------------------------------------------------------
\* C23: a listener driven by start answers an event of its token and each
\* Continue after a value with the next waiting connection, one value for
\* each; when none is waiting it reregisters and returns Continue; an
\* accept error gives Continue; an event of another token is returned as
\* it is with no accept made.
C23_ListenerDrains ==
    root.kind \in {"Tcp", "Uds"} =>
        \A k \in 1..Len(calls) :
            LET c == calls[k]
                q == c.q[root.token]
            IN  /\ (k > 1 /\ calls[k - 1].out.tag = "Value") => c.in = Continue /\ c.idx = calls[k - 1].idx
                /\ (k = Len(calls) /\ c.out.tag = "Value") => pc = "drain"
                /\ IF c.in.tag = "Event" /\ c.in.ev.token # root.token
                   THEN c.out = c.in /\ c.after = c.q /\ c.rr = <<>>
                   ELSE IF c.nofile
                   THEN c.out = Continue
                   ELSE IF q = <<>>
                   THEN /\ c.out = Continue
                        /\ c.rr = <<[token |-> root.token, interest |-> root.interest]>>
                   ELSE IF Head(q) = AcceptError
                   THEN c.out = Continue
                   ELSE c.out = Value(Head(q)) /\ c.after[root.token] = Tail(q)

\* C21: with two listeners joined by and under start, no connection stays
\* in the queue of a listener while start waits in poll with no event
\* queued, and every connection accepted is returned to start as a value.
C21_AndDrainsListeners ==
    root.kind = "And" =>
        /\ (pc = "poll" /\ ready = {}) =>
              \A t \in ListenerTokens(root) : chan[t] = <<>>
        /\ \A k \in 1..Len(calls) : \A t \in ListenerTokens(root) :
              (/\ calls[k].after[t] # calls[k].q[t]
               /\ Head(calls[k].q[t]) # AcceptError)
                  => calls[k].out = Value(Head(calls[k].q[t]))

\* ------------------------------------------------------------------------
\* Stream: an EventedReactor over a socket, its latches and its I/O shim
\* ------------------------------------------------------------------------

\* Stream::new: EventedReactor::new(inner, readable | writable); the latches
\* start false
StreamNew(token) ==
    [token |-> token, interest |-> {"readable", "writable"},
     is_readable |-> FALSE, is_writable |-> FALSE]

\* What the operating system reports for the socket: readable when bytes,
\* the end of the stream or an error wait; writable when the send buffer has
\* room or the socket failed
SockReady(s) ==
    [readable |-> s.rx > 0 \/ s.eof \/ s.failed,
     writable |-> s.room > 0 \/ s.failed]

\* The readiness of the socket that lies within the interest of the handle
Within(h, s) ==
    [readable |-> "readable" \in h.interest /\ SockReady(s).readable,
     writable |-> "writable" \in h.interest /\ SockReady(s).writable]

\* What Poll::reregister can answer: Err for a handle the selector does not
\* know (epoll_ctl gives ENOENT), Ok or Err (ENOMEM) for one it knows
ReregisterResults(e) == IF e.registered THEN BOOLEAN ELSE {FALSE}

\* System::reregister on the selector entry, `ok` the answer of
\* Poll::reregister: on Err the entry stays as it was; on Ok the entry is
\* set again with the handle's token and interest, edge triggered, and the
\* handle is queued when the socket is ready within the interest
SystemReregister(e, h, s, ok) ==
    IF ~ok
    THEN [ok |-> FALSE, e |-> e, armed |-> <<>>]
    ELSE [ok |-> TRUE,
          e |-> [e EXCEPT !.queued = @ \/ Within(h, s).readable \/ Within(h, s).writable],
          armed |-> <<[token |-> h.token, interest |-> h.interest, opt |-> "edge"]>>]

\* The results the inner read can give, each with the socket afterwards.
\* Bytes that wait are given first, also on a connection that broke. The
\* error of a broken connection waits on the socket (`err`) and is given
\* once, to the call that takes it; the reads after it return zero bytes.
\* When the peer had closed before the connection broke, the operating
\* system gives the error or the end of the stream first, by its kind of
\* socket
InnerRead(s) ==
    IF s.rx > 0
    THEN {[kind |-> "Ok", n |-> n, s |-> [s EXCEPT !.rx = @ - n]] : n \in 1..s.rx}
    ELSE IF s.err
         THEN {[kind |-> "Err", n |-> 0, s |-> [s EXCEPT !.err = FALSE]]}
                 \cup (IF s.eof THEN {[kind |-> "Ok", n |-> 0, s |-> s]} ELSE {})
         ELSE IF s.eof \/ s.failed THEN {[kind |-> "Ok", n |-> 0, s |-> s]}
              ELSE {[kind |-> "WouldBlock", n |-> 0, s |-> s]}

\* The results the inner write can give: on a broken connection every
\* write fails, with the error that waits on the socket (which it takes)
\* or with the error of a closed connection (which leaves the other)
InnerWrite(s) ==
    IF s.failed
    THEN {[kind |-> "Err", n |-> 0, s |-> s], [kind |-> "Err", n |-> 0, s |-> [s EXCEPT !.err = FALSE]]}
    ELSE IF s.room > 0
         THEN {[kind |-> "Ok", n |-> n, s |-> [s EXCEPT !.room = @ - n]] : n \in 1..s.room}
         ELSE {[kind |-> "WouldBlock", n |-> 0, s |-> s]}

\* Read for EventedReactor, the match on the inner result: the handle afterwards
ReadMatch(h, res) ==
    CASE res.kind = "WouldBlock" -> [h EXCEPT !.is_readable = FALSE]
      [] res.kind = "Err" -> [h EXCEPT !.is_readable = FALSE]
      [] res.kind = "Ok" /\ res.n = 0 -> [h EXCEPT !.is_readable = FALSE]
      [] OTHER -> h

\* Write for EventedReactor, the match on the inner result
WriteMatch(h, res) ==
    CASE res.kind = "WouldBlock" -> [h EXCEPT !.is_writable = FALSE]
      [] res.kind = "Err" -> [h EXCEPT !.is_writable = FALSE]
      [] OTHER -> h

\* What read and write hand back: the inner result, or the error "failed to
\* reregister" when the inner call would block and reregister failed
ShimReturn(res, reregistered) ==
    IF res.kind = "WouldBlock" /\ ~reregistered
    THEN [kind |-> "Other", n |-> 0]
    ELSE [kind |-> res.kind, n |-> res.n]

\* The socket takes bytes (has bytes to give) and the connection is whole
CanWrite == sock.room > 0 /\ ~sock.failed
CanRead == sock.rx > 0

\* stream.react was not called yet
NoReaction == [val |-> 0, ev |-> NoEvent, tag |-> "None"]

\* No read or write call was made yet
NoCall ==
    [op |-> "none", inner |-> [kind |-> "none", n |-> 0],
     ret |-> [kind |-> "none", n |-> 0], before |-> <<>>, after |-> <<>>,
     able |-> FALSE, armed |-> <<>>]

\* The call made last before the one of c, if c is one, was a write that
\* returned the would-block error
Outcome(c) ==
    IF c.op = "none" THEN io.prev ELSE c.op = "write" /\ c.ret.kind = "WouldBlock"

\* The event poll makes for the stream: the stream's token with the
\* readiness the socket has at that moment, within the interest
Pending ==
    [token |-> stream.token, readable |-> Within(stream, sock).readable,
     writable |-> Within(stream, sock).writable]

\* The state after Stream::new(socket) on a new System: the token is
\* reserved, the socket is registered with edge triggering and the selector
\* has the handle queued when the socket is ready at that moment
InitStream ==
    /\ LET r == ReserveTokenOf(SystemNew)
       IN  /\ reactors = r.pv
           /\ handles = <<r.index>>
           /\ held = <<>>
           /\ hist = <<Call("new", r.index, r.res)>>
           /\ stream = StreamNew(r.index)
    /\ upper = <<>>
    /\ NoGraph
    /\ NoSync
    /\ \E room \in 0..MaxBytes :
          sock = [rx |-> 0, room |-> room, eof |-> FALSE, failed |-> FALSE, err |-> FALSE]
    /\ sel = [registered |-> TRUE,
              queued |-> Within(stream, sock).readable \/ Within(stream, sock).writable]
    /\ io = [pc |-> "idle", call |-> NoCall, prev |-> FALSE,
             in |-> NoReaction, out |-> NoReaction, from |-> stream, to |-> stream,
             events |-> <<>>]

\* System::start, poll, once the loop over the batch before is done: the
\* selector takes the queued handle off its list and looks at the socket.
\* If the socket is ready within the interest, the event with that
\* readiness is put into `events`; if it is not ready any more, there is no
\* event. The events of other tokens in the batch are those the owner
\* answers with the reads and writes it makes before or after the stream's
\* event reaches it
PollOwn ==
    /\ io.pc = "idle"
    /\ io.events = <<>>
    /\ sel.queued
    /\ io' = [io EXCEPT !.events = IF Pending.readable \/ Pending.writable
                                   THEN <<Pending>> ELSE <<>>]
    /\ sel' = [sel EXCEPT !.queued = FALSE]
    /\ UNCHANGED <<tokenVars, graphVars, syncVars, stream, sock>>

\* The loop of start reaches the stream's event and the owner hands it to
\* stream.react (stream.rs 70: stream.react(event.into()))
DeliverOwn ==
    /\ io.pc = "idle"
    /\ io.events # <<>>
    /\ LET res == StreamReact(stream, Event(Head(io.events)))
       IN  /\ stream' = res.h
           /\ io' = [io EXCEPT !.in = Event(Head(io.events)), !.out = res.out,
                               !.from = stream, !.to = res.h, !.events = <<>>,
                               !.call = NoCall, !.prev = Outcome(io.call)]
    /\ UNCHANGED <<tokenVars, graphVars, syncVars, sock, sel>>

\* stream.react called with an event of another token, Continue or a Value
ReactOther ==
    /\ io.pc = "idle"
    /\ \E r \in {Continue, Value(Unit),
                Event([token |-> stream.token + 1, readable |-> TRUE, writable |-> TRUE])} :
         LET res == StreamReact(stream, r)
         IN  /\ stream' = res.h
             /\ io' = [io EXCEPT !.in = r, !.out = res.out, !.from = stream,
                               !.to = res.h, !.call = NoCall, !.prev = Outcome(io.call)]
    /\ UNCHANGED <<tokenVars, graphVars, syncVars, sock, sel>>

\* The end of a read or write call: what it returned and what it left
Return(op, res, reregistered, before, able, armed) ==
    [pc |-> "idle",
     call |-> [op |-> op, inner |-> [kind |-> res.kind, n |-> res.n],
               ret |-> ShimReturn(res, reregistered), before |-> before,
               after |-> stream', able |-> able, armed |-> armed],
     prev |-> Outcome(io.call), in |-> io.in, out |-> io.out, from |-> io.from,
     to |-> io.to, events |-> io.events]

\* The inner call returned would-block and the latch is cleared: the shim is
\* about to call System::reregister
Blocked(op, res) ==
    [io EXCEPT !.pc = "rereg",
               !.prev = Outcome(io.call),
               !.call = [op |-> op, inner |-> [kind |-> res.kind, n |-> res.n],
                         ret |-> [kind |-> "none", n |-> 0], before |-> stream,
                         after |-> <<>>, able |-> FALSE, armed |-> <<>>]]

\* stream.read(buf), called while the readable latch is set (stream.rs 73:
\* while stream.readable()), up to the call of reregister
ReadCall ==
    /\ io.pc = "idle"
    /\ stream.is_readable
    /\ \E res \in InnerRead(sock) :
         /\ sock' = res.s
         /\ stream' = ReadMatch(stream, res)
         /\ io' = IF res.kind = "WouldBlock"
                  THEN Blocked("read", res)
                  ELSE Return("read", res, TRUE, stream, CanRead, <<>>)
    /\ UNCHANGED <<tokenVars, graphVars, syncVars, sel>>

\* stream.write(buf), called while the writable latch is set (stream.rs 80:
\* while stream.writable() && !write_buffer.is_empty())
WriteCall ==
    /\ io.pc = "idle"
    /\ stream.is_writable
    /\ \E res \in InnerWrite(sock) :
         /\ sock' = res.s
         /\ stream' = WriteMatch(stream, res)
         /\ io' = IF res.kind = "WouldBlock"
                  THEN Blocked("write", res)
                  ELSE Return("write", res, TRUE, stream, CanWrite, <<>>)
    /\ UNCHANGED <<tokenVars, graphVars, syncVars, sel>>

\* The would-block arm of read and write: System::reregister(&self), then
\* the call returns the inner error, or Err(Other) when reregister failed
ReregisterStep ==
    /\ io.pc = "rereg"
    /\ UNCHANGED <<tokenVars, graphVars, syncVars, stream, sock>>
    /\ \E ok \in ReregisterResults(sel) :
       \E rr \in {SystemReregister(sel, stream, sock, ok)} :
         /\ sel' = rr.e
         /\ io' = [Return(io.call.op, io.call.inner, rr.ok, io.call.before,
                          io.call.able, rr.armed)
                     EXCEPT !.prev = io.prev]

\* The change of readiness queues the handle, if the selector knows it
Edge(e) == [e EXCEPT !.queued = @ \/ e.registered]

\* The peer sends a byte: the socket turns readable, and the selector queues
\* the handle (it may not when unread bytes were waiting already)
PeerSend ==
    /\ ~sock.eof /\ ~sock.failed
    /\ sock.rx < MaxBytes
    /\ sock' = [sock EXCEPT !.rx = @ + 1]
    /\ \/ sel' = Edge(sel)
       \/ sock.rx > 0 /\ sel' = sel
    /\ UNCHANGED <<tokenVars, graphVars, syncVars, stream, io>>

\* The peer closes its side: reads return zero bytes once the bytes are read
PeerClose ==
    /\ ~sock.eof /\ ~sock.failed
    /\ sock' = [sock EXCEPT !.eof = TRUE]
    /\ sel' = Edge(sel)
    /\ UNCHANGED <<tokenVars, graphVars, syncVars, stream, io>>

\* The peer reads: the send buffer gets room, and the selector queues the
\* handle (it may not when the buffer had room already)
PeerDrain ==
    /\ ~sock.failed
    /\ sock.room < MaxBytes
    /\ sock' = [sock EXCEPT !.room = @ + 1]
    /\ \/ sel' = Edge(sel)
       \/ sock.room > 0 /\ sel' = sel
    /\ UNCHANGED <<tokenVars, graphVars, syncVars, stream, io>>

\* The connection breaks (the peer resets it): its error waits on the
\* socket, and every later write fails
SockFail ==
    /\ ~sock.failed
    /\ sock' = [sock EXCEPT !.failed = TRUE, !.err = TRUE]
    /\ sel' = Edge(sel)
    /\ UNCHANGED <<tokenVars, graphVars, syncVars, stream, io>>

\* *stream.inner_mut() = socket: the owner puts another connected socket
\* into the stream. The socket that was registered is dropped, which takes
\* it out of the selector; the new one was never registered, and the token,
\* the interest and the latches of the stream stay as they are
InnerMut ==
    /\ io.pc = "idle"
    /\ sel.registered
    /\ \E room \in 0..MaxBytes :
          sock' = [rx |-> 0, room |-> room, eof |-> FALSE, failed |-> FALSE, err |-> FALSE]
    /\ sel' = [registered |-> FALSE, queued |-> FALSE]
    /\ UNCHANGED <<tokenVars, graphVars, syncVars, stream, io>>

Driver == PollOwn \/ DeliverOwn \/ ReregisterStep

NextStream ==
    \/ PollOwn \/ DeliverOwn \/ ReactOther \/ ReadCall \/ WriteCall \/ ReregisterStep
    \/ PeerSend \/ PeerClose \/ PeerDrain \/ SockFail \/ InnerMut

SpecStream == InitStream /\ [][NextStream]_vars

\* The thread that owns the stream keeps running: a pending event is
\* polled, a polled one is given to the stream, a started reregister is
\* finished
FairStream == SpecStream /\ WF_vars(Driver)

\* ------------------------------------------------------------------------
\* Claims about Stream and the I/O shim
\* ------------------------------------------------------------------------

\* The last call of stream.react was given an event of the stream's token
ReactedOwn == io.in.tag = "Event" /\ io.in.ev.token = stream.token

\* C24: Stream.react, given an event of the stream's token, ORs the event's
\* readable and writable flags into the latches and returns Value(()); given
\* an event of another token it returns that event and leaves the latches;
\* given Continue or a Value it returns Continue.
C24_StreamReact ==
    /\ ReactedOwn =>
         /\ io.out = Value(Unit)
         /\ io.to.is_readable = (io.from.is_readable \/ io.in.ev.readable)
         /\ io.to.is_writable = (io.from.is_writable \/ io.in.ev.writable)
    /\ (io.in.tag = "Event" /\ ~ReactedOwn) =>
         /\ io.out = io.in
         /\ io.to = io.from
    /\ io.in.tag \in {"Continue", "Value"} => io.out = Continue

\* A read or write call has returned; io.call tells what it did
Returned(op) == io.pc = "idle" /\ io.call.op = op

\* C25: when the inner read (write) returns would-block, the readable
\* (writable) latch becomes false, the other latch is unchanged, the handle
\* is reregistered under its own token and its stored interest, and the
\* caller gets the would-block error.
C25_WouldBlock ==
    /\ (Returned("read") /\ io.call.inner.kind = "WouldBlock") =>
         /\ ~io.call.after.is_readable
         /\ io.call.after.is_writable = io.call.before.is_writable
    /\ (Returned("write") /\ io.call.inner.kind = "WouldBlock") =>
         /\ ~io.call.after.is_writable
         /\ io.call.after.is_readable = io.call.before.is_readable
    /\ (io.pc = "idle" /\ io.call.inner.kind = "WouldBlock") =>
         /\ io.call.armed = <<[token |-> io.call.before.token,
                               interest |-> io.call.before.interest,
                               opt |-> "edge"]>>
         /\ io.call.before.interest = {"readable", "writable"}
         /\ io.call.ret.kind = "WouldBlock"

\* C26: when the inner read returns zero bytes the readable latch is cleared
\* and the caller gets an error; on any other error the matching latch is
\* cleared and the error is returned; a read or write of n > 0 bytes
\* changes neither latch.
C26_EndOfStream ==
    /\ (Returned("read") /\ io.call.inner = [kind |-> "Ok", n |-> 0]) =>
         /\ ~io.call.after.is_readable
         /\ io.call.ret.kind \notin {"Ok", "none"}
    /\ (Returned("read") /\ io.call.inner.kind = "Err") =>
         /\ ~io.call.after.is_readable
         /\ io.call.ret.kind = "Err"
    /\ (Returned("write") /\ io.call.inner.kind = "Err") =>
         /\ ~io.call.after.is_writable
         /\ io.call.ret.kind = "Err"
    /\ (io.pc = "idle" /\ io.call.inner.kind = "Ok" /\ io.call.inner.n > 0) =>
         /\ io.call.after = io.call.before
         /\ io.call.ret = io.call.inner

\* The selector knows the stream's socket, has the handle queued, and the
\* socket takes bytes while the writable latch is clear: the next event of
\* the stream is a writable one
WritableEventDue ==
    sel.registered /\ sel.queued /\ Within(stream, sock).writable /\ ~stream.is_writable

Source(vals, last) == [kind |-> "F", vals |-> vals, last |-> last]

\* T: `more` Values still to come as answers to Continue; `always`: a Value
\* is the answer to every Continue
Sink(more, always) == [kind |-> "T", more |-> more, always |-> always]

\* from.react(r): the reactor afterwards and its answer
SourceReact(f, r) ==
    IF f.vals > 0
    THEN [node |-> [f EXCEPT !.vals = @ - 1], out |-> Value(f.vals)]
    ELSE [node |-> f, out |-> IF f.last = "Event" THEN Event(Ev(1)) ELSE Continue]

\* to.react(r)
SinkReact(t, r) ==
    CASE r.tag = "Event" -> [node |-> t, out |-> r]
      [] r.tag = "Value" -> [node |-> t, out |-> Continue]
      [] r.tag = "Continue" ->
            IF t.always THEN [node |-> t, out |-> Value(Unit)]
            ELSE IF t.more > 0 THEN [node |-> [t EXCEPT !.more = @ - 1], out |-> Value(Unit)]
            ELSE [node |-> t, out |-> Continue]

\* Passes of the loop, counted modulo 2
Round(n) == (n + 1) % 2

\* chain.react(reaction) is about to be called
InitCall ==
    /\ TokensAtInit
    /\ NoNet
    /\ NoSync
    /\ \E vals, more \in 0..MaxGen, last \in {"Event", "Continue"}, always \in BOOLEAN :
          root = [kind |-> "Chain", from |-> Source(vals, last), to |-> Sink(more, always)]
    /\ lastIn \in {Continue, Event(Ev(1)), Value(Unit)}
    /\ lastOut = Continue
    /\ chan = <<>>
    /\ ready = {}
    /\ log = <<>>
    /\ pc = "call"
    /\ events = <<>>
    /\ idx = 0
    /\ calls = <<>>
    /\ stopper = "idle"
    /\ feeder = [sent |-> 0, pc |-> "idle"]

\* let mut r1 = self.from.react(reaction);
ChainFrom ==
    /\ pc = "call"
    /\ LET f == SourceReact(root.from, lastIn)
       IN  /\ root' = [root EXCEPT !.from = f.node]
           /\ lastOut' = f.out
           /\ log' = <<"from", lastIn, f.out>>
    /\ pc' = "loop"
    /\ UNCHANGED <<tokenVars, netVars, syncVars, chan, ready, lastIn, events, idx, calls,
                   stopper, feeder>>

\* Reaction::Event(_) => break self.to.react(r1)
ChainEvent ==
    /\ pc = "loop"
    /\ lastOut.tag = "Event"
    /\ LET t == SinkReact(root.to, lastOut)
       IN  /\ root' = [root EXCEPT !.to = t.node]
           /\ lastOut' = t.out
           /\ log' = <<"to", lastOut, t.out>>
    /\ pc' = "returned"
    /\ UNCHANGED <<tokenVars, netVars, syncVars, chan, ready, lastIn, events, idx, calls,
                   stopper, feeder>>

\* Reaction::Value(val) => { let _ = self.to.react(Value(val));
\*                           r1 = self.from.react(Continue); }
ChainValue ==
    /\ pc = "loop"
    /\ lastOut.tag = "Value"
    /\ LET t == SinkReact(root.to, lastOut)
           f == SourceReact(root.from, Continue)
       IN  /\ root' = [root EXCEPT !.to = t.node, !.from = f.node]
           /\ lastOut' = f.out
           /\ log' = <<"from", Continue, f.out>>
    /\ idx' = Round(idx)
    /\ UNCHANGED <<tokenVars, netVars, syncVars, chan, ready, lastIn, pc, events, calls,
                   stopper, feeder>>

\* Reaction::Continue => if let Continue = self.to.react(Continue) { break Continue }
ChainContinue ==
    /\ pc = "loop"
    /\ lastOut.tag = "Continue"
    /\ LET t == SinkReact(root.to, Continue)
       IN  /\ root' = [root EXCEPT !.to = t.node]
           /\ log' = <<"to", Continue, t.out>>
           /\ pc' = IF t.out.tag = "Continue" THEN "returned" ELSE "loop"
    /\ idx' = Round(idx)
    /\ UNCHANGED <<tokenVars, netVars, syncVars, chan, ready, lastIn, lastOut, events,
                   calls, stopper, feeder>>

NextCall == ChainFrom \/ ChainEvent \/ ChainValue \/ ChainContinue

SpecCall == InitCall /\ [][NextCall]_vars

\* The thread inside Chain::react keeps running
FairCall == SpecCall /\ WF_vars(NextCall)

\* C37: one call of Chain(F, T).react returns, whatever T is: also when T
\* answers react(Continue) with something other than Continue.
C37_ChainReturns == <>(pc = "returned")

\* ------------------------------------------------------------------------
\* Each reactor of the library as a stage: alone, and chained with a Mono
\* that owns another token. Token 1 is the stage's, 2 the Mono's, 3 is
\* owned by no reactor of the graph (it numbers the signal channel of a
\* consumer or subscriber on another thread)
\* ------------------------------------------------------------------------
StageToken == 1
OwnerToken == 2
OtherToken == 3

\* The stages, with and without something of their own to give
Owner == MonoNode("owner", OwnerToken, Unit)

Stages ==
    <<TcpNode("stage", StageToken), UdsNode("stage", StageToken),
      StreamNode("stage", StageToken), SigNode("stage", StageToken),
      MonoNode("stage", StageToken, Unit),
      BroadcastNode("stage", <<OtherToken>>), QueueNode("stage", <<OtherToken>>),
      GenNode("stage", StageToken, <<>>), GenNode("stage", StageToken, <<1>>),
      DequeNode("stage", StageToken, <<>>, 0), DequeNode("stage", StageToken, <<1>>, 0),
      DequeNode("stage", StageToken, <<>>, MaxRetry),
      DequeNode("stage", StageToken, <<1>>, MaxRetry)>>

\* The stages that have a channel: signals, or connections to accept
WithChannel == {"Sig", "Deque", "Tcp", "Uds"}

\* A stage alone, before the Mono, or after it
Shapes(s) == <<s, ChainNode("run", s, Owner), ChainNode("run", Owner, s)>>

\* The token a stage owns; a ReactiveQueue and a ReactiveBroadcast own none
Owned(n) == IF n.kind \in {"Queue", "Broadcast"} THEN {} ELSE {n.token}

InitPass ==
    /\ TokensAtInit
    /\ NoNet
    /\ NoSync
    /\ NoLoop
    /\ \E i \in 1..Len(Stages), j \in 1..3, q \in {<<>>, <<1>>, <<1, 1>>} :
          /\ root = Shapes(Stages[i])[j]
          /\ q # <<>> => Stages[i].kind \in WithChannel
          /\ chan = [t \in {SYSTEM_TOKEN, StageToken, OwnerToken, OtherToken} |->
                        IF t = StageToken THEN q ELSE <<>>]
    /\ ready = StartTokens(root) \cup SentTokens(chan)
    /\ log = <<>>
    /\ lastIn = Continue
    /\ lastOut = Continue

\* One call root.react(r), the calls counted
Offer(r) ==
    /\ idx < MaxOps
    /\ \E res \in {React(root, r, World(<<>>, chan, ready))} :
          /\ root' = res.node
          /\ chan' = res.w.chan
          /\ ready' = res.w.ready
          /\ log' = res.w.log
          /\ lastIn' = r
          /\ lastOut' = res.out
    /\ idx' = idx + 1
    /\ UNCHANGED <<netVars, tokenVars, syncVars, pc, events, calls, stopper, feeder>>

OfferEvent == \E t \in {StageToken, OwnerToken, OtherToken} : Offer(Event(Ev(t)))

OfferContinue == Offer(Continue)

OfferValue == \E v \in GenValues : Offer(Value(v))

NextPass == OfferEvent \/ OfferContinue \/ OfferValue

SpecPass == InitPass /\ [][NextPass]_vars

\* The last call gave the root an event
GivenEvent == lastIn.tag = "Event"

\* The reactor `id` was called with the reaction r during the last call
WasCalled(id, r) ==
    \E i \in 1..Len(log) : log[i].id = id /\ log[i].dir = "call" /\ log[i].r = r

\* C38: a reactor given Event(e) for a token it does not own returns
\* Event(e) unchanged, and in a chain the event reaches the stage that owns
\* its token, whether that stage stands first or second.
C38_ForeignEventsPass ==
    GivenEvent =>
        /\ root.kind # "Chain" /\ lastIn.ev.token \notin Owned(root) => lastOut = lastIn
        /\ root.kind = "Chain" /\ lastIn.ev.token = OwnerToken => WasCalled("owner", lastIn)

\* ------------------------------------------------------------------------
\* Connections: a PreVec of connections that does not grow; read and write
\* remove a connection on some results of the connection's own read or write
\* ------------------------------------------------------------------------
\* Connections::with_capacity: PreVec::with_capacity, then prevent_growth
ConnectionsWithCapacity(cap) == [PreVecWithCapacity(cap) EXCEPT !.can_grow = FALSE]

\* The error kinds that read and write match by name
Dropped == {"ConnectionRefused", "ConnectionReset", "ConnectionAborted"}

\* What the connection's read or write returns: Ok(n) with n > 0, Ok(0), or
\* an io::Error of some kind
IoResults == {"Ok", "Zero", "WouldBlock", "BrokenPipe", "TimedOut"} \cup Dropped

\* The tokens given to read and write: every slot and one past the last
ConnTokens == 0..SystemCapacity

\* The connection types: the T of Connections<T>
ConnTypes == {"Tcp", "Uds"}

\* Ready::readable() | Ready::writable(): the interests a connection can hold
Ready == {"readable", "writable"}

ConnCall(op, token, inner, whole, res, had, has, rereg) ==
    [op |-> op, token |-> token, inner |-> inner, whole |-> whole, res |-> res,
     had |-> had, has |-> has, rereg |-> rereg]

\* Read for TcpConnection: the interest the connection holds after its stream
\* returned `result`
TcpRead(i, result) ==
    CASE result = "Ok" -> i
      [] result = "WouldBlock" -> i \cup {"readable"}
      [] OTHER -> {}

\* Write for TcpConnection; `whole` is byte_count == buf.len()
TcpWrite(i, result, whole) ==
    CASE result \in {"Ok", "Zero"} -> IF whole THEN i \ {"writable"} ELSE i
      [] result = "WouldBlock" -> i
      [] OTHER -> {}

\* Read for UdsConnection
UdsRead(i, result) ==
    CASE result \in {"Ok", "WouldBlock"} -> i \cup {"readable"}
      [] OTHER -> {}

\* Write for UdsConnection
UdsWrite(i, result, whole) ==
    CASE result \in {"Ok", "Zero"} ->
            IF whole THEN (i \cup {"readable"}) \ {"writable"} ELSE i \cup {"readable"}
      [] result = "WouldBlock" -> i
      [] OTHER -> {}

\* readable.read(buffer) and writable.write(buffer): the interest of the
\* connection of type `type` after the call
ConnectionIo(type, op, i, result, whole) ==
    CASE type = "Tcp" /\ op = "read" -> TcpRead(i, result)
      [] type = "Tcp" /\ op = "write" -> TcpWrite(i, result, whole)
      [] type = "Uds" /\ op = "read" -> UdsRead(i, result)
      [] type = "Uds" /\ op = "write" -> UdsWrite(i, result, whole)

\* Connections::get_mut(token).is_some()
HasConnection(p, token) == \E g \in GetOutcomes(p, token) : g.res = "some"

\* Connections::remove, then Err(ConnectionRemoved(token))
RemoveConnection(p, i, token) ==
    LET r == PreVecRemove(p, token)
    IN  [pv |-> r.pv, interest |-> [i EXCEPT ![token] = {}],
         res |-> IF r.res = "panic" THEN "panic" ELSE "ConnectionRemoved", rereg |-> FALSE]

\* The match on the result in read and in write: the connections and their
\* interests afterwards, what is returned, and whether reregister was called
IoMatch(p, i, token, result, rereg_ok) ==
    CASE result = "Zero" -> RemoveConnection(p, i, token)
      [] result = "Ok" -> [pv |-> p, interest |-> i, res |-> "Ok", rereg |-> FALSE]
      [] result \in Dropped -> RemoveConnection(p, i, token)
      [] result = "WouldBlock" ->
            IF HasConnection(p, token)
            THEN [pv |-> p, interest |-> [i EXCEPT ![token] = @ \cup {"readable"}],
                  res |-> IF rereg_ok THEN "Io(WouldBlock)" ELSE "Io(reregister)",
                  rereg |-> TRUE]
            ELSE [pv |-> p, interest |-> i, res |-> "Io(WouldBlock)", rereg |-> FALSE]
      [] OTHER -> [pv |-> p, interest |-> i, res |-> "Io(other)", rereg |-> FALSE]

\* Connections::<T>::with_capacity(cap): `io` holds the type T, `sock` the
\* interest of the connection at each token
InitConns ==
    /\ \E cap \in 0..SystemCapacity, type \in ConnTypes :
          /\ reactors = ConnectionsWithCapacity(cap)
          /\ sock = [t \in ConnTokens |-> {}]
          /\ io = type
    /\ upper = <<>>
    /\ handles = <<>>
    /\ held = <<>>
    /\ hist = <<>>
    /\ stream = <<>>
    /\ sel = <<>>
    /\ NoGraph
    /\ NoSync

ConnAlive == IF hist = <<>> THEN TRUE ELSE hist[1].res # "panic"

\* Connections::insert_and_register: insert, get_mut, register. The
\* connection comes with the interest its owner gave it (interest() hands
\* out the field)
InsertAndRegister ==
    /\ ConnAlive
    /\ \E r \in InsertOutcomes(reactors, Unit), interest \in SUBSET Ready,
          register_ok \in BOOLEAN :
          /\ reactors' = r.pv
          /\ sock' = IF r.res = "ok" THEN [sock EXCEPT ![r.index] = interest] ELSE sock
          /\ hist' = <<ConnCall("insert", r.index, "none", FALSE,
                          IF r.res # "ok" THEN r.res
                          ELSE IF ~HasConnection(r.pv, r.index) THEN "NoConnection"
                          ELSE IF register_ok THEN "Ok" ELSE "Io(register)",
                          FALSE, r.res = "ok", FALSE)>>
    /\ UNCHANGED <<upper, handles, held, stream, sel, io, graphVars, syncVars>>

\* read or write with the token: get_mut, the connection's read or write,
\* which changes the interest of the connection, then the match on its
\* result. `whole` is whether the write took all of the buffer
ConnIo(op, token) ==
    /\ ConnAlive
    /\ IF ~HasConnection(reactors, token)
       THEN /\ hist' = <<ConnCall(op, token, "none", FALSE, "NoConnection", FALSE, FALSE,
                                  FALSE)>>
            /\ UNCHANGED <<reactors, sock>>
       ELSE \E result \in IoResults, rereg_ok \in BOOLEAN,
               whole \in IF op = "write" THEN BOOLEAN ELSE {FALSE} :
               \E m \in {IoMatch(reactors,
                                 [sock EXCEPT ![token] =
                                     ConnectionIo(io, op, @, result, whole)],
                                 token, result, rereg_ok)} :
                  /\ reactors' = m.pv
                  /\ sock' = m.interest
                  /\ hist' = <<ConnCall(op, token, result, whole, m.res, TRUE,
                                        HasConnection(m.pv, token), m.rereg)>>
    /\ UNCHANGED <<upper, handles, held, stream, sel, io, graphVars, syncVars>>

\* connections.get_mut(token).map(|connection| *connection.interest() = ...):
\* the owner gives the connection another interest (mod.rs 93-97); without
\* a connection at the token get_mut is None and nothing changes
ConnInterest ==
    /\ ConnAlive
    /\ \E token \in ConnTokens, interest \in SUBSET Ready :
          /\ HasConnection(reactors, token)
          /\ sock' = [sock EXCEPT ![token] = interest]
          /\ hist' = <<ConnCall("interest", token, "none", FALSE, "Ok", TRUE, TRUE, FALSE)>>
    /\ UNCHANGED <<reactors, upper, handles, held, stream, sel, io, graphVars, syncVars>>

\* Connections::reregister(poll, token): the connection's reregister with
\* the interest it holds, or NoConnection
ConnReregister ==
    /\ ConnAlive
    /\ \E token \in ConnTokens, rereg_ok \in BOOLEAN :
          hist' = <<ConnCall("reregister", token, "none", FALSE,
                             IF ~HasConnection(reactors, token) THEN "NoConnection"
                             ELSE IF rereg_ok THEN "Ok" ELSE "Io(reregister)",
                             HasConnection(reactors, token), HasConnection(reactors, token),
                             HasConnection(reactors, token))>>
    /\ UNCHANGED <<reactors, sock, upper, handles, held, stream, sel, io, graphVars, syncVars>>

\* Connections::read
ConnRead == \E token \in ConnTokens : ConnIo("read", token)

\* Connections::write
ConnWrite == \E token \in ConnTokens : ConnIo("write", token)

NextConns == InsertAndRegister \/ ConnInterest \/ ConnReregister \/ ConnRead \/ ConnWrite

SpecConns == InitConns /\ [][NextConns]_vars

\* The last call was read or write with a token
LastIo == hist # <<>> /\ hist[1].op \in {"read", "write"}

\* C35: read removes the connection and returns ConnectionRemoved when the
\* connection's read gives zero bytes or any error but would-block; on
\* would-block the connection stays and is reregistered; read and write on
\* a token without connection return NoConnection; nothing panics.
C35_ReadRemoves ==
    LastIo =>
        LET c == hist[1]
        IN  /\ c.res # "panic"
            /\ ~c.had => c.res = "NoConnection"
            /\ c.op = "read" /\ c.had /\ c.inner = "WouldBlock" => c.has /\ c.rereg
            /\ c.op = "read" /\ c.had /\ c.inner \notin {"Ok", "WouldBlock"} =>
                  c.res = "ConnectionRemoved" /\ ~c.has

\* ------------------------------------------------------------------------
\* One Queue and several ReactiveDeque consumers, each on its own thread
\* under its own System (examples/multithreaded.rs); the producer pushes
\* 1..MaxSends
\* ------------------------------------------------------------------------
\* The consumers, two of them: queue.deque() was called once for each
Stealers == {1, 2}

\* The thread that calls Queue::push: `to` is the publisher it is at
NewPusher == [NewThread("pusher") EXCEPT !.n = Cardinality(Stealers)]

InitSteal ==
    /\ TokensAtInit
    /\ NoNet
    /\ NoGraph
    /\ capacity \in {Unbounded} \cup {Bounded(n) : n \in 0..MaxCap}
    /\ sig = [i \in Stealers |-> NewSignal]
    /\ thr = <<NewPusher>>
    /\ con = [i \in Stealers |-> NewConsumer]
    /\ dq = <<>>
    /\ lock = <<>>
    /\ ops = <<>>

\* Queue::push, first line: self.worker.push(val)
StealPush ==
    /\ thr[1].pc = "idle"
    /\ thr[1].sent < MaxSends
    /\ dq' = Append(dq, thr[1].sent + 1)
    /\ thr' = [thr EXCEPT ![1].pc = "set"]
    /\ UNCHANGED <<netVars, tokenVars, graphVars, capacity, sig, con, lock, ops>>

\* Queue::push, p.send(()) for the publisher it is at: set_readiness
StealSetReadiness ==
    /\ ThreadSetReadiness(1)
    /\ UNCHANGED <<netVars, tokenVars, graphVars, capacity, con, dq, lock, ops>>

\* ... and sender.send(()); then the next publisher, or push returns
StealSend ==
    /\ ThreadSend(1, Unit)
    /\ UNCHANGED <<netVars, tokenVars, graphVars, capacity, con, dq, lock, ops>>

StealerStart(i) ==
    /\ ConsumerStart(i)
    /\ UNCHANGED <<netVars, tokenVars, graphVars, capacity, sig, thr, dq, lock, ops>>

StealerPoll(i) ==
    /\ ConsumerPoll(i)
    /\ UNCHANGED <<netVars, tokenVars, graphVars, capacity, thr, dq, lock, ops>>

\* Dequeue::steal of consumer i, first half: self.signal.try_recv()
StealerTryRecv(i) ==
    /\ con[i].pc = "recv"
    /\ \E o \in TryRecvOutcomes(i, <<Unit>>) :
        /\ sig' = o.sig
        /\ thr' = o.thr
    /\ con' = [con EXCEPT ![i].pc = "steal"]
    /\ UNCHANGED <<netVars, tokenVars, graphVars, capacity, dq, lock, ops>>

\* Dequeue::steal of consumer i, second half: self.stealer.steal()
StealerSteal(i) ==
    /\ StealOutcome(i)
    /\ UNCHANGED <<netVars, tokenVars, graphVars, capacity, sig, thr, lock, ops>>

Pusher == StealPush \/ StealSetReadiness \/ StealSend

Stealer(i) == StealerStart(i) \/ StealerPoll(i) \/ StealerTryRecv(i) \/ StealerSteal(i)

NextSteal ==
    \/ StealPush
    \/ StealSetReadiness
    \/ StealSend
    \/ \E i \in Stealers : StealerStart(i)
    \/ \E i \in Stealers : StealerPoll(i)
    \/ \E i \in Stealers : StealerTryRecv(i)
    \/ \E i \in Stealers : StealerSteal(i)

SpecSteal == InitSteal /\ [][NextSteal]_vars

\* Every thread is scheduled
FairSteal == SpecSteal /\ WF_vars(Pusher) /\ \A i \in Stealers : WF_vars(Stealer(i))

\* worker.push(v) was done
Pushed(v) == thr[1].sent >= v \/ (thr[1].sent = v - 1 /\ thr[1].pc # "idle")

\* How many times the consumers emitted Value(v)
Emissions(v) ==
    Cardinality({<<i, k>> \in Stealers \X (1..MaxSends) : k <= Len(con[i].got) /\ con[i].got[k] = v})

\* Every consumer waits in poll and has no event to get
AllIdle == \A i \in Stealers : con[i].pc = "poll" /\ ~sig[i].ready

\* The producer is between two pushes, or can not leave its send
PusherRests ==
    \/ thr[1].pc = "idle"
    \/ /\ thr[1].pc = "send"
       /\ ~sig[thr[1].to].dropped
       /\ ~HasRoom(sig[thr[1].to], capacity)

EmittedOnce ==
    \A v \in 1..MaxSends : Emissions(v) <= 1 /\ (Emissions(v) = 1 => Pushed(v))

NoneLeftWhileIdle == AllIdle /\ PusherRests => dq = <<>>

\* A pushed value that no consumer emitted is still in the deque
InDequeOrEmitted ==
    \A v \in 1..MaxSends :
        Pushed(v) => (Emissions(v) = 0) = (\E k \in 1..Len(dq) : dq[k] = v)

\* C36: with several consumers every pushed value is emitted by exactly one
\* of them, whatever the interleaving (never by two; and never by none: a
\* pushed value is in the deque until it is emitted, and the deque is
\* emptied), and no pushed value stays in the queue while every consumer
\* is idle.
C36_StolenExactlyOnce ==
    /\ [](EmittedOnce /\ InDequeOrEmitted /\ NoneLeftWhileIdle)
    /\ []<>(dq = <<>>)

\* Both consumers emitted a value and nothing is left
C36_Witness ==
    /\ \A i \in Stealers : con[i].got # <<>>
    /\ thr[1].sent = MaxSends
    /\ dq = <<>>
    /\ AllIdle

====
